---- MODULE Spec2Model ----
(***************************************************************************)
(* Security posture extraction of eolas (package kubernetes): the walk     *)
(* over a parsed cluster document that yields the resource-count map and   *)
(* the four finding collections (privileged containers, added             *)
(* capabilities, host namespaces, hostPath volumes).                       *)
(*                                                                         *)
(* Go strings are sequences of one-character strings, so that fmt.Sprintf  *)
(* keys and strings.HasPrefix are computed character by character.         *)
(* An interface{} value decoded by encoding/json is a tagged record:       *)
(* nil, bool, float64, string, []interface{} or map[string]interface{}.    *)
(***************************************************************************)
EXTENDS Integers, Sequences, FiniteSets, TLC

VARIABLES config, pc, resourceCounts, privilegedContainers, capabilityContainers,
          hostNamespaceWorkloads, hostPathVolumes,
          db, files, clock, uuids, command

analysisVars == <<config, pc, resourceCounts, privilegedContainers,
                  capabilityContainers, hostNamespaceWorkloads, hostPathVolumes>>

storeVars == <<db, files, clock, uuids, command>>

vars == <<analysisVars, storeVars>>

(***************************************************************************)
(* Strings of the program                                                  *)
(***************************************************************************)
Pod == <<"P", "o", "d">>
Deployment == <<"D", "e", "p", "l", "o", "y", "m", "e", "n", "t">>
StatefulSet == <<"S", "t", "a", "t", "e", "f", "u", "l", "S", "e", "t">>
DaemonSet == <<"D", "a", "e", "m", "o", "n", "S", "e", "t">>
ReplicaSet == <<"R", "e", "p", "l", "i", "c", "a", "S", "e", "t">>
Job == <<"J", "o", "b">>
CronJob == <<"C", "r", "o", "n", "J", "o", "b">>

\* The kinds both passes of every Get* function test for.
IsWorkloadKind(kind) ==
    \/ kind = Deployment \/ kind = StatefulSet
    \/ kind = DaemonSet \/ kind = ReplicaSet
    \/ kind = Job \/ kind = CronJob

\* strings.HasPrefix
HasPrefix(s, prefix) ==
    /\ Len(s) >= Len(prefix)
    /\ SubSeq(s, 1, Len(prefix)) = prefix

\* fmt.Sprintf("%s/%s", a, b)
SlashKey(a, b) == a \o <<"/">> \o b

\* fmt.Sprintf("%s|%s", a, b)
PipeKey(a, b) == a \o <<"|">> \o b

\* fmt.Sprintf("%s/%s/%s", a, b, c)
SlashKey3(a, b, c) == a \o <<"/">> \o b \o <<"/">> \o c

(***************************************************************************)
(* interface{} values as encoding/json decodes them                        *)
(***************************************************************************)
Nil == [t |-> "nil"]
JBool(b) == [t |-> "bool", v |-> b]
\* A float64: v + 1/2 when half, v otherwise (v >= 0 when half).
JNum(v, half) == [t |-> "num", v |-> v, half |-> half]
JStr(s) == [t |-> "str", v |-> s]
JList(l) == [t |-> "list", v |-> l]
JMap(m) == [t |-> "map", v |-> m]

\* x.(map[string]interface{}), x.([]interface{}), x.(bool), x.(string),
\* x.(float64): the ok result of the type assertion.
IsMap(x) == x.t = "map"
IsList(x) == x.t = "list"
IsBool(x) == x.t = "bool"
IsStr(x) == x.t = "str"
IsNum(x) == x.t = "num"

\* m[key] on a map[string]interface{}: the zero value nil when key is absent.
Get(m, key) == IF key \in DOMAIN m.v THEN m.v[key] ELSE Nil

\* s, _ := x.(string): the empty string when the assertion fails.
StrOrEmpty(x) == IF IsStr(x) THEN x.v ELSE <<>>

\* b, ok := x.(bool); ok && b
IsTrue(x) == IsBool(x) /\ x.v

(***************************************************************************)
(* GetResourceCounts                                                       *)
(***************************************************************************)
\* counts[item.Kind] = 1 in place of counts[item.Kind]++
RECURSIVE CountKindsOnce(_, _)
CountKindsOnce(items, acc) ==
    IF Len(items) = 0 THEN acc
    ELSE CountKindsOnce(Tail(items),
                        [k \in DOMAIN acc \cup {Head(items).Kind} |->
                            IF k = Head(items).Kind THEN 1 ELSE acc[k]])

RECURSIVE CountKinds(_, _)
CountKinds(items, acc) ==
    IF Len(items) = 0 THEN acc
    ELSE LET kind == Head(items).Kind
             old == IF kind \in DOMAIN acc THEN acc[kind] ELSE 0
         IN CountKinds(Tail(items),
                       [k \in DOMAIN acc \cup {kind} |->
                           IF k = kind THEN old + 1 ELSE acc[k]])

\* The map is made with an entry of count 0 for the kind Pod.
GetResourceCountsOfKnownKinds(cfg) == CountKinds(cfg.Items, [k \in {Pod} |-> 0])

GetResourceCounts(cfg) == CountKinds(cfg.Items, <<>>)

(***************************************************************************)
(* Pod-template navigation shared by the four *InWorkload functions        *)
(***************************************************************************)
\* The spec map in which "template" is looked up: for a CronJob the job spec
\* under jobTemplate.spec when both assertions succeed, else spec itself.
templateHolder(spec, kind) ==
    IF kind = CronJob
    THEN LET jobTemplate == Get(spec, "jobTemplate")
         IN IF IsMap(jobTemplate) /\ IsMap(Get(jobTemplate, "spec"))
            THEN Get(jobTemplate, "spec")
            ELSE spec
    ELSE spec

\* The pod spec of a workload record, or Nil when the navigation stops.
workloadPodSpec(item) ==
    IF ~IsMap(item.Spec) THEN Nil
    ELSE LET spec == templateHolder(item.Spec, item.Kind)
             template == Get(spec, "template")
         IN IF IsMap(template) /\ IsMap(Get(template, "spec"))
            THEN Get(template, "spec")
            ELSE Nil

(***************************************************************************)
(* Privileged containers                                                   *)
(***************************************************************************)
\* break in place of continue at a container that is no map
RECURSIVE checkContainersUntilMalformed(_, _, _, _)
checkContainersUntilMalformed(containers, ownerName, namespace, kind) ==
    IF Len(containers) = 0 \/ ~IsMap(Head(containers)) THEN <<>>
    ELSE LET c == Head(containers)
             rest == checkContainersUntilMalformed(Tail(containers), ownerName,
                                                   namespace, kind)
             securityContext == Get(c, "securityContext")
         IN IF IsMap(securityContext) /\ IsTrue(Get(securityContext, "privileged"))
            THEN <<[Name |-> StrOrEmpty(Get(c, "name")), Namespace |-> namespace,
                    Kind |-> kind, PodName |-> ownerName]>> \o rest
            ELSE rest

\* The finding is appended whenever privileged is a boolean, true or false.
RECURSIVE checkContainersForPrivilegedKey(_, _, _, _)
checkContainersForPrivilegedKey(containers, ownerName, namespace, kind) ==
    IF Len(containers) = 0 THEN <<>>
    ELSE LET c == Head(containers)
             rest == checkContainersForPrivilegedKey(Tail(containers), ownerName,
                                                     namespace, kind)
         IN IF ~IsMap(c) THEN rest
            ELSE LET securityContext == Get(c, "securityContext")
                 IN IF IsMap(securityContext)
                       /\ IsBool(Get(securityContext, "privileged"))
                    THEN <<[Name |-> StrOrEmpty(Get(c, "name")), Namespace |-> namespace,
                            Kind |-> kind, PodName |-> ownerName]>> \o rest
                    ELSE rest

RECURSIVE checkContainersForPrivileged(_, _, _, _)
checkContainersForPrivileged(containers, ownerName, namespace, kind) ==
    IF Len(containers) = 0 THEN <<>>
    ELSE LET c == Head(containers)
             rest == checkContainersForPrivileged(Tail(containers), ownerName,
                                                  namespace, kind)
         IN IF ~IsMap(c) THEN rest
            ELSE LET containerName == StrOrEmpty(Get(c, "name"))
                     securityContext == Get(c, "securityContext")
                 IN IF IsMap(securityContext)
                       /\ IsTrue(Get(securityContext, "privileged"))
                    THEN <<[Name |-> containerName, Namespace |-> namespace,
                            Kind |-> kind, PodName |-> ownerName]>> \o rest
                    ELSE rest

\* The containers and then the initContainers of a pod spec map.
privilegedInPodSpec(podSpec, ownerName, namespace, kind) ==
    LET containers == Get(podSpec, "containers")
        initContainers == Get(podSpec, "initContainers")
    IN (IF IsList(containers)
        THEN checkContainersForPrivileged(containers.v, ownerName, namespace, kind)
        ELSE <<>>)
       \o
       (IF IsList(initContainers)
        THEN checkContainersForPrivileged(initContainers.v, ownerName, namespace, kind)
        ELSE <<>>)

processPrivilegedContainersInPod(item, podName, namespace, kind) ==
    IF IsMap(item.Spec)
    THEN privilegedInPodSpec(item.Spec, podName, namespace, kind)
    ELSE <<>>

processPrivilegedContainersInWorkload(item) ==
    LET podSpec == workloadPodSpec(item)
    IN IF IsMap(podSpec)
       THEN privilegedInPodSpec(podSpec, item.Metadata.Name,
                                item.Metadata.Namespace, item.Kind)
       ELSE <<>>

\* The managed flag of the second pass of GetPrivilegedContainers and
\* GetCapabilityContainers.
managedByOwnerKind(item) ==
    \E i \in 1..Len(item.Metadata.OwnerReferences) :
        IsWorkloadKind(item.Metadata.OwnerReferences[i].Kind)

\* The order of the comment above findHighestPriorityResource: Job above CronJob.
kindPriorityAsCommented(kind) ==
    CASE kind = Pod -> 1
      [] kind = ReplicaSet -> 2
      [] kind = CronJob -> 3
      [] kind = Job -> 4
      [] kind = DaemonSet -> 5
      [] kind = StatefulSet -> 6
      [] kind = Deployment -> 7
      [] OTHER -> 0

\* kindPriority[kind]: 0 for a kind that is no key of the map.
kindPriority(kind) ==
    CASE kind = Pod -> 1
      [] kind = ReplicaSet -> 2
      [] kind = Job -> 3
      [] kind = CronJob -> 4
      [] kind = DaemonSet -> 5
      [] kind = StatefulSet -> 6
      [] kind = Deployment -> 7
      [] OTHER -> 0

\* A mutant of highestFrom: a later resource of equal priority replaces the
\* one kept.
RECURSIVE highestOrLaterFrom(_, _)
highestOrLaterFrom(resources, highest) ==
    IF Len(resources) = 0 THEN highest
    ELSE highestOrLaterFrom(Tail(resources),
                            IF kindPriority(Head(resources).Kind) >= kindPriority(highest.Kind)
                            THEN Head(resources)
                            ELSE highest)

RECURSIVE highestFrom(_, _)
highestFrom(resources, highest) ==
    IF Len(resources) = 0 THEN highest
    ELSE highestFrom(Tail(resources),
                     IF kindPriority(Head(resources).Kind) > kindPriority(highest.Kind)
                     THEN Head(resources)
                     ELSE highest)

findHighestPriorityResource(resources) ==
    IF Len(resources) = 0
    THEN [Name |-> <<>>, Namespace |-> <<>>, Kind |-> <<>>, PodName |-> <<>>]
    ELSE IF Len(resources) = 1 THEN resources[1]
    ELSE highestFrom(Tail(resources), resources[1])

\* The keys of containerMap, in the order the grouping loop first inserts them.
RECURSIVE containerKeys(_, _)
containerKeys(results, acc) ==
    IF Len(results) = 0 THEN acc
    ELSE LET key == PipeKey(Head(results).Namespace, Head(results).Name)
         IN containerKeys(Tail(results),
                          IF \E i \in 1..Len(acc) : acc[i] = key
                          THEN acc ELSE Append(acc, key))

\* containerMap[key]: the results of that key, in the order they were appended.
containerGroup(results, key) ==
    SelectSeq(results, LAMBDA r : PipeKey(r.Namespace, r.Name) = key)

\* Every result of every group is appended, not the highest one alone.
keepAllPrivilegedResults(results, iteration) == results

Reverse(s) == [i \in 1..Len(s) |-> s[Len(s) + 1 - i]]

\* Among the findings of equal precedence of a group, the one kept follows
\* the iteration order of the map.
deduplicateTiesByIteration(results, iteration) ==
    LET keys == containerKeys(results, <<>>)
    IN [i \in 1..Len(keys) |->
           findHighestPriorityResource(
               IF iteration[1] = 1
               THEN containerGroup(results, keys[iteration[i]])
               ELSE Reverse(containerGroup(results, keys[iteration[i]])))]

\* A mutant of deduplicatePrivilegedResults: the results are grouped by
\* container name alone, the groups taken in the order of their first result.
deduplicateByContainerName(results, iteration) ==
    LET firsts == SelectSeq([i \in 1..Len(results) |-> i],
                     LAMBDA i : \A j \in 1..(i - 1) :
                                    results[j].Name # results[i].Name)
    IN [k \in 1..Len(firsts) |->
           findHighestPriorityResource(
               SelectSeq(results,
                         LAMBDA r : r.Name = results[firsts[k]].Name))]

\* iteration is the order in which range visits the keys of containerMap:
\* a permutation of 1..Len(keys).
deduplicatePrivilegedResults(results, iteration) ==
    LET keys == containerKeys(results, <<>>)
    IN [i \in 1..Len(keys) |->
           findHighestPriorityResource(containerGroup(results, keys[iteration[i]]))]

RECURSIVE privilegedControllerResults(_)
privilegedControllerResults(items) ==
    IF Len(items) = 0 THEN <<>>
    ELSE (IF IsWorkloadKind(Head(items).Kind)
          THEN processPrivilegedContainersInWorkload(Head(items))
          ELSE <<>>)
         \o privilegedControllerResults(Tail(items))

RECURSIVE privilegedPodResults(_)
privilegedPodResults(items) ==
    IF Len(items) = 0 THEN <<>>
    ELSE (IF Head(items).Kind = Pod /\ ~managedByOwnerKind(Head(items))
          THEN processPrivilegedContainersInPod(Head(items),
                   Head(items).Metadata.Name, Head(items).Metadata.Namespace,
                   Head(items).Kind)
          ELSE <<>>)
         \o privilegedPodResults(Tail(items))

\* results of GetPrivilegedContainers before deduplication
privilegedCombined(cfg) ==
    privilegedControllerResults(cfg.Items) \o privilegedPodResults(cfg.Items)

GetPrivilegedContainers(cfg, iteration) ==
    deduplicatePrivilegedResults(privilegedCombined(cfg), iteration)

(***************************************************************************)
(* Added capabilities                                                      *)
(***************************************************************************)
\* Only the entries named SYS are kept.
RECURSIVE dangerousEntries(_)
dangerousEntries(add) ==
    IF Len(add) = 0 THEN <<>>
    ELSE (IF Head(add) = JStr(<<"S", "Y", "S">>) THEN <<Head(add).v>> ELSE <<>>)
         \o dangerousEntries(Tail(add))

\* addedCaps: the string entries of add, in order.
RECURSIVE stringEntries(_)
stringEntries(add) ==
    IF Len(add) = 0 THEN <<>>
    ELSE (IF IsStr(Head(add)) THEN <<Head(add).v>> ELSE <<>>)
         \o stringEntries(Tail(add))

RECURSIVE checkContainersForCapabilities(_, _, _, _)
checkContainersForCapabilities(containers, ownerName, namespace, kind) ==
    IF Len(containers) = 0 THEN <<>>
    ELSE LET c == Head(containers)
             rest == checkContainersForCapabilities(Tail(containers), ownerName,
                                                    namespace, kind)
         IN IF ~IsMap(c) THEN rest
            ELSE LET containerName == StrOrEmpty(Get(c, "name"))
                     securityContext == Get(c, "securityContext")
                     capabilities == IF IsMap(securityContext)
                                     THEN Get(securityContext, "capabilities")
                                     ELSE Nil
                     add == IF IsMap(capabilities) THEN Get(capabilities, "add")
                            ELSE Nil
                     addedCaps == IF IsList(add) /\ Len(add.v) > 0
                                  THEN stringEntries(add.v) ELSE <<>>
                 IN IF Len(addedCaps) > 0
                    THEN <<[Name |-> containerName, Namespace |-> namespace,
                            Kind |-> kind, PodName |-> ownerName,
                            Capabilities |-> addedCaps]>> \o rest
                    ELSE rest

capabilitiesInPodSpec(podSpec, ownerName, namespace, kind) ==
    LET containers == Get(podSpec, "containers")
        initContainers == Get(podSpec, "initContainers")
    IN (IF IsList(containers)
        THEN checkContainersForCapabilities(containers.v, ownerName, namespace, kind)
        ELSE <<>>)
       \o
       (IF IsList(initContainers)
        THEN checkContainersForCapabilities(initContainers.v, ownerName, namespace, kind)
        ELSE <<>>)

processCapabilityContainersInPod(item, podName, namespace, kind) ==
    IF IsMap(item.Spec)
    THEN capabilitiesInPodSpec(item.Spec, podName, namespace, kind)
    ELSE <<>>

processCapabilityContainersInWorkload(item) ==
    LET podSpec == workloadPodSpec(item)
    IN IF IsMap(podSpec)
       THEN capabilitiesInPodSpec(podSpec, item.Metadata.Name,
                                  item.Metadata.Namespace, item.Kind)
       ELSE <<>>

findHighestPriorityCapabilityResource(resources) ==
    IF Len(resources) = 0
    THEN [Name |-> <<>>, Namespace |-> <<>>, Kind |-> <<>>, PodName |-> <<>>,
          Capabilities |-> <<>>]
    ELSE IF Len(resources) = 1 THEN resources[1]
    ELSE highestFrom(Tail(resources), resources[1])

deduplicateCapabilityResults(results, iteration) ==
    LET keys == containerKeys(results, <<>>)
    IN [i \in 1..Len(keys) |->
           findHighestPriorityCapabilityResource(
               containerGroup(results, keys[iteration[i]]))]

RECURSIVE capabilityControllerResults(_)
capabilityControllerResults(items) ==
    IF Len(items) = 0 THEN <<>>
    ELSE (IF IsWorkloadKind(Head(items).Kind)
          THEN processCapabilityContainersInWorkload(Head(items))
          ELSE <<>>)
         \o capabilityControllerResults(Tail(items))

RECURSIVE capabilityPodResults(_)
capabilityPodResults(items) ==
    IF Len(items) = 0 THEN <<>>
    ELSE (IF Head(items).Kind = Pod /\ ~managedByOwnerKind(Head(items))
          THEN processCapabilityContainersInPod(Head(items),
                   Head(items).Metadata.Name, Head(items).Metadata.Namespace,
                   Head(items).Kind)
          ELSE <<>>)
         \o capabilityPodResults(Tail(items))

\* results of GetCapabilityContainers before deduplication
capabilityCombined(cfg) ==
    capabilityControllerResults(cfg.Items) \o capabilityPodResults(cfg.Items)

GetCapabilityContainers(cfg, iteration) ==
    deduplicateCapabilityResults(capabilityCombined(cfg), iteration)

(***************************************************************************)
(* Host namespaces                                                         *)
(***************************************************************************)
containsString(slice, item) == \E i \in 1..Len(slice) : slice[i] = item

containsInt(slice, item) == \E i \in 1..Len(slice) : slice[i] = item

\* A mutant of hostPortsOfPorts: a host port is appended each time it is
\* declared.
RECURSIVE hostPortsWithRepeats(_, _)
hostPortsWithRepeats(ports, hostPorts) ==
    IF Len(ports) = 0 THEN hostPorts
    ELSE LET port == Head(ports)
             hostPort == IF IsMap(port) THEN Get(port, "hostPort") ELSE Nil
         IN hostPortsWithRepeats(Tail(ports),
                IF IsNum(hostPort) /\ (hostPort.v > 0 \/ hostPort.half)
                THEN Append(hostPorts, hostPort.v)
                ELSE hostPorts)

\* The ports loop of one container: workload.HostPorts after it.
RECURSIVE hostPortsOfPorts(_, _)
hostPortsOfPorts(ports, hostPorts) ==
    IF Len(ports) = 0 THEN hostPorts
    ELSE LET port == Head(ports)
             hostPort == IF IsMap(port) THEN Get(port, "hostPort") ELSE Nil
         IN hostPortsOfPorts(Tail(ports),
                \* hostPort > 0, then int(hostPort) truncates the fraction
                IF IsNum(hostPort) /\ (hostPort.v > 0 \/ hostPort.half)
                   /\ ~containsInt(hostPorts, hostPort.v)
                THEN Append(hostPorts, hostPort.v)
                ELSE hostPorts)

\* workload is [ContainerNames, HostPorts] and is returned updated.
RECURSIVE checkContainersForHostPorts(_, _)
checkContainersForHostPorts(containers, workload) ==
    IF Len(containers) = 0 THEN workload
    ELSE LET c == Head(containers)
         IN IF ~IsMap(c)
            THEN checkContainersForHostPorts(Tail(containers), workload)
            ELSE LET containerName == StrOrEmpty(Get(c, "name"))
                     names == IF ~containsString(workload.ContainerNames, containerName)
                                 /\ containerName # <<>>
                              THEN Append(workload.ContainerNames, containerName)
                              ELSE workload.ContainerNames
                     ports == Get(c, "ports")
                     hostPorts == IF IsList(ports)
                                  THEN hostPortsOfPorts(ports.v, workload.HostPorts)
                                  ELSE workload.HostPorts
                 IN checkContainersForHostPorts(Tail(containers),
                        [ContainerNames |-> names, HostPorts |-> hostPorts])

\* The finding is appended for a host namespace only, not for host ports.
checkPodForHostNamespaceFlags(spec, name, namespace, kind) ==
    IF ~IsMap(spec) THEN <<>>
    ELSE LET hostPID == IsTrue(Get(spec, "hostPID"))
             hostIPC == IsTrue(Get(spec, "hostIPC"))
             hostNetwork == IsTrue(Get(spec, "hostNetwork"))
             containers == Get(spec, "containers")
             initContainers == Get(spec, "initContainers")
             w0 == [ContainerNames |-> <<>>, HostPorts |-> <<>>]
             w1 == IF IsList(containers)
                   THEN checkContainersForHostPorts(containers.v, w0) ELSE w0
             w2 == IF IsList(initContainers)
                   THEN checkContainersForHostPorts(initContainers.v, w1) ELSE w1
         IN IF hostPID \/ hostIPC \/ hostNetwork
            THEN <<[Name |-> name, Namespace |-> namespace, Kind |-> kind,
                    HostPID |-> hostPID, HostIPC |-> hostIPC,
                    HostNetwork |-> hostNetwork, HostPorts |-> w2.HostPorts,
                    ContainerNames |-> w2.ContainerNames]>>
            ELSE <<>>

\* The findings (none or one) checkPodForHostNamespaces appends for item.Spec = spec.
checkPodForHostNamespaces(spec, name, namespace, kind) ==
    IF ~IsMap(spec) THEN <<>>
    ELSE LET hostPID == IsTrue(Get(spec, "hostPID"))
             hostIPC == IsTrue(Get(spec, "hostIPC"))
             hostNetwork == IsTrue(Get(spec, "hostNetwork"))
             containers == Get(spec, "containers")
             initContainers == Get(spec, "initContainers")
             w0 == [ContainerNames |-> <<>>, HostPorts |-> <<>>]
             w1 == IF IsList(containers)
                   THEN checkContainersForHostPorts(containers.v, w0) ELSE w0
             w2 == IF IsList(initContainers)
                   THEN checkContainersForHostPorts(initContainers.v, w1) ELSE w1
         IN IF hostPID \/ hostIPC \/ hostNetwork \/ Len(w2.HostPorts) > 0
            THEN <<[Name |-> name, Namespace |-> namespace, Kind |-> kind,
                    HostPID |-> hostPID, HostIPC |-> hostIPC,
                    HostNetwork |-> hostNetwork, HostPorts |-> w2.HostPorts,
                    ContainerNames |-> w2.ContainerNames]>>
            ELSE <<>>

checkWorkloadForHostNamespaces(item) ==
    LET podSpec == workloadPodSpec(item)
    IN IF IsMap(podSpec)
       THEN checkPodForHostNamespaces(podSpec, item.Metadata.Name,
                                      item.Metadata.Namespace, item.Kind)
       ELSE <<>>

\* A mutant of ownedBy: a reference counts when its controller flag is set.
ownedByController(item, controllerKey) ==
    \E i \in 1..Len(item.Metadata.OwnerReferences) :
        /\ item.Metadata.OwnerReferences[i].Controller
        /\ SlashKey(item.Metadata.OwnerReferences[i].Kind,
                    item.Metadata.OwnerReferences[i].Name) = controllerKey

\* The owner-reference loop of markManagedPods for one Pod item.
ownedBy(item, controllerKey) ==
    \E i \in 1..Len(item.Metadata.OwnerReferences) :
        SlashKey(item.Metadata.OwnerReferences[i].Kind,
                 item.Metadata.OwnerReferences[i].Name) = controllerKey

\* Only the first owner reference of a Pod is compared with the controller key.
markPodsByFirstReference(cfg, controllerKey, processedPods) ==
    processedPods \cup
    {SlashKey(cfg.Items[i].Metadata.Namespace, cfg.Items[i].Metadata.Name) :
        i \in {j \in 1..Len(cfg.Items) :
                  /\ cfg.Items[j].Kind = Pod
                  /\ Len(cfg.Items[j].Metadata.OwnerReferences) > 0
                  /\ SlashKey(cfg.Items[j].Metadata.OwnerReferences[1].Kind,
                              cfg.Items[j].Metadata.OwnerReferences[1].Name)
                         = controllerKey}}

\* processedPods (the set of keys mapped to true) after markManagedPods.
markManagedPods(cfg, controllerKey, processedPods) ==
    processedPods \cup
    {SlashKey(cfg.Items[i].Metadata.Namespace, cfg.Items[i].Metadata.Name) :
        i \in {j \in 1..Len(cfg.Items) :
                  /\ cfg.Items[j].Kind = Pod
                  /\ ownedBy(cfg.Items[j], controllerKey)}}

\* processedPods after the first pass over items[1..n].
RECURSIVE processedAfter(_, _)
processedAfter(cfg, n) ==
    IF n = 0 THEN {}
    ELSE IF IsWorkloadKind(cfg.Items[n].Kind)
    THEN markManagedPods(cfg,
                         SlashKey(cfg.Items[n].Kind, cfg.Items[n].Metadata.Name),
                         processedAfter(cfg, n - 1))
    ELSE processedAfter(cfg, n - 1)

RECURSIVE hostNamespaceControllerResults(_)
hostNamespaceControllerResults(items) ==
    IF Len(items) = 0 THEN <<>>
    ELSE (IF IsWorkloadKind(Head(items).Kind)
          THEN checkWorkloadForHostNamespaces(Head(items))
          ELSE <<>>)
         \o hostNamespaceControllerResults(Tail(items))

\* The second-pass test of GetHostNamespaceWorkloads and GetHostPathVolumes.
scannedAsPod(item, processedPods) ==
    /\ item.Kind = Pod
    /\ SlashKey(item.Metadata.Namespace, item.Metadata.Name) \notin processedPods

RECURSIVE hostNamespacePodResults(_, _)
hostNamespacePodResults(items, processedPods) ==
    IF Len(items) = 0 THEN <<>>
    ELSE (IF scannedAsPod(Head(items), processedPods)
          THEN checkPodForHostNamespaces(Head(items).Spec,
                   Head(items).Metadata.Name, Head(items).Metadata.Namespace,
                   Head(items).Kind)
          ELSE <<>>)
         \o hostNamespacePodResults(Tail(items), processedPods)

controlPlanePods ==
    << <<"e", "t", "c", "d", "-">>,
       <<"k", "u", "b", "e", "-", "a", "p", "i", "s", "e", "r", "v", "e", "r", "-">>,
       <<"k", "u", "b", "e", "-", "c", "o", "n", "t", "r", "o", "l", "l", "e", "r",
         "-", "m", "a", "n", "a", "g", "e", "r", "-">>,
       <<"k", "u", "b", "e", "-", "s", "c", "h", "e", "d", "u", "l", "e", "r", "-">> >>

\* The prefixes compared without their last character, the dash.
isControlPlanePodWithoutDash(name) ==
    \E i \in 1..Len(controlPlanePods) :
        HasPrefix(name, SubSeq(controlPlanePods[i], 1, Len(controlPlanePods[i]) - 1))

isControlPlanePod(name) ==
    \E i \in 1..Len(controlPlanePods) : HasPrefix(name, controlPlanePods[i])

\* The seen key without the kind: namespace/name.
RECURSIVE addControllersByName(_, _)
addControllersByName(results, st) ==
    IF Len(results) = 0 THEN st
    ELSE LET result == Head(results)
             key == SlashKey(result.Namespace, result.Name)
         IN addControllersByName(Tail(results),
                IF result.Kind # Pod /\ key \notin st.seen
                THEN [seen |-> st.seen \cup {key},
                      uniqueResults |-> Append(st.uniqueResults, result)]
                ELSE st)

\* The first loop: st is [seen, uniqueResults].
RECURSIVE addControllers(_, _)
addControllers(results, st) ==
    IF Len(results) = 0 THEN st
    ELSE LET result == Head(results)
             key == SlashKey3(result.Namespace, result.Kind, result.Name)
         IN addControllers(Tail(results),
                IF result.Kind # Pod /\ key \notin st.seen
                THEN [seen |-> st.seen \cup {key},
                      uniqueResults |-> Append(st.uniqueResults, result)]
                ELSE st)

\* The second loop.
RECURSIVE addControlPlanePods(_, _)
addControlPlanePods(results, st) ==
    IF Len(results) = 0 THEN st
    ELSE LET result == Head(results)
             key == SlashKey3(result.Namespace, result.Kind, result.Name)
         IN addControlPlanePods(Tail(results),
                IF result.Kind = Pod /\ isControlPlanePod(result.Name)
                   /\ key \notin st.seen
                THEN [seen |-> st.seen \cup {key},
                      uniqueResults |-> Append(st.uniqueResults, result)]
                ELSE st)

deduplicateHostNamespaceWorkloads(results) ==
    addControlPlanePods(results,
        addControllers(results, [seen |-> {}, uniqueResults |-> <<>>])).uniqueResults

\* The pod results of items[1..n] when each Pod is filtered as the loop over
\* the controllers reaches it: by the marks of the controllers before it.
RECURSIVE hostNamespacePodResultsWhileMarking(_, _)
hostNamespacePodResultsWhileMarking(cfg, n) ==
    IF n = 0 THEN <<>>
    ELSE hostNamespacePodResultsWhileMarking(cfg, n - 1)
         \o (IF scannedAsPod(cfg.Items[n], processedAfter(cfg, n))
             THEN checkPodForHostNamespaces(cfg.Items[n].Spec,
                      cfg.Items[n].Metadata.Name, cfg.Items[n].Metadata.Namespace,
                      cfg.Items[n].Kind)
             ELSE <<>>)

\* A mutant of hostNamespaceCombined: one pass marks and filters.
hostNamespaceCombinedInOnePass(cfg) ==
    hostNamespaceControllerResults(cfg.Items)
    \o hostNamespacePodResultsWhileMarking(cfg, Len(cfg.Items))

\* results of GetHostNamespaceWorkloads before deduplication
hostNamespaceCombined(cfg) ==
    hostNamespaceControllerResults(cfg.Items)
    \o hostNamespacePodResults(cfg.Items, processedAfter(cfg, Len(cfg.Items)))

GetHostNamespaceWorkloads(cfg) ==
    deduplicateHostNamespaceWorkloads(hostNamespaceCombined(cfg))

(***************************************************************************)
(* hostPath volumes                                                        *)
(***************************************************************************)
\* The volumeMounts loop of one container.
mountsReadOnly(volumeMounts, volumeName) ==
    \E i \in 1..Len(volumeMounts) :
        /\ IsMap(volumeMounts[i])
        /\ StrOrEmpty(Get(volumeMounts[i], "name")) = volumeName
        /\ IsTrue(Get(volumeMounts[i], "readOnly"))

\* The loop returns after its first container.
checkFirstContainerForReadOnlyMount(containers, volumeName) ==
    /\ Len(containers) > 0
    /\ IsMap(containers[1])
    /\ IsList(Get(containers[1], "volumeMounts"))
    /\ mountsReadOnly(Get(containers[1], "volumeMounts").v, volumeName)

checkContainersForReadOnlyMount(containers, volumeName) ==
    \E i \in 1..Len(containers) :
        /\ IsMap(containers[i])
        /\ IsList(Get(containers[i], "volumeMounts"))
        /\ mountsReadOnly(Get(containers[i], "volumeMounts").v, volumeName)

\* The read-only flag is appended inside the containers branch only.
RECURSIVE hostPathsFlaggedInsideContainers(_, _, _)
hostPathsFlaggedInsideContainers(volumes, spec, acc) ==
    IF Len(volumes) = 0 THEN acc
    ELSE LET volume == Head(volumes)
             hostPath == IF IsMap(volume) THEN Get(volume, "hostPath") ELSE Nil
             path == IF IsMap(hostPath) THEN Get(hostPath, "path") ELSE Nil
         IN IF ~(IsStr(path) /\ path.v # <<>>)
            THEN hostPathsFlaggedInsideContainers(Tail(volumes), spec, acc)
            ELSE LET volumeName == StrOrEmpty(Get(volume, "name"))
                     containers == Get(spec, "containers")
                 IN hostPathsFlaggedInsideContainers(Tail(volumes), spec,
                        [hostPaths |-> Append(acc.hostPaths, path.v),
                         readOnly |->
                             IF IsList(containers)
                             THEN Append(acc.readOnly,
                                      checkContainersForReadOnlyMount(containers.v,
                                                                      volumeName))
                             ELSE acc.readOnly])

\* The volume loop: acc is [hostPaths, readOnly].
RECURSIVE hostPathsOfVolumes(_, _, _)
hostPathsOfVolumes(volumes, spec, acc) ==
    IF Len(volumes) = 0 THEN acc
    ELSE LET volume == Head(volumes)
             hostPath == IF IsMap(volume) THEN Get(volume, "hostPath") ELSE Nil
             path == IF IsMap(hostPath) THEN Get(hostPath, "path") ELSE Nil
         IN IF ~(IsStr(path) /\ path.v # <<>>)
            THEN hostPathsOfVolumes(Tail(volumes), spec, acc)
            ELSE LET volumeName == StrOrEmpty(Get(volume, "name"))
                     containers == Get(spec, "containers")
                     initContainers == Get(spec, "initContainers")
                     inMain == IF IsList(containers)
                               THEN checkContainersForReadOnlyMount(containers.v,
                                                                    volumeName)
                               ELSE FALSE
                     inInit == IF IsList(initContainers)
                               THEN checkContainersForReadOnlyMount(initContainers.v,
                                                                    volumeName)
                               ELSE FALSE
                     isReadOnly == IF inInit THEN TRUE ELSE inMain
                 IN hostPathsOfVolumes(Tail(volumes), spec,
                        [hostPaths |-> Append(acc.hostPaths, path.v),
                         readOnly |-> Append(acc.readOnly, isReadOnly)])

\* One finding is appended per hostPath volume, inside the volume loop.
checkPodForEachHostPathVolume(spec, name, namespace, kind) ==
    IF ~IsMap(spec) THEN <<>>
    ELSE LET volumes == Get(spec, "volumes")
         IN IF ~IsList(volumes) \/ Len(volumes.v) = 0 THEN <<>>
            ELSE LET found == hostPathsOfVolumes(volumes.v, spec,
                                  [hostPaths |-> <<>>, readOnly |-> <<>>])
                 IN [k \in DOMAIN found.hostPaths |->
                        [Name |-> name, Namespace |-> namespace, Kind |-> kind,
                         HostPaths |-> <<found.hostPaths[k]>>,
                         ReadOnly |-> <<found.readOnly[k]>>]]

\* The findings (none or one) checkPodForHostPathVolumes appends for item.Spec = spec.
checkPodForHostPathVolumes(spec, name, namespace, kind) ==
    IF ~IsMap(spec) THEN <<>>
    ELSE LET volumes == Get(spec, "volumes")
         IN IF ~IsList(volumes) \/ Len(volumes.v) = 0 THEN <<>>
            ELSE LET found == hostPathsOfVolumes(volumes.v, spec,
                                  [hostPaths |-> <<>>, readOnly |-> <<>>])
                 IN IF Len(found.hostPaths) > 0
                    THEN <<[Name |-> name, Namespace |-> namespace, Kind |-> kind,
                            HostPaths |-> found.hostPaths,
                            ReadOnly |-> found.readOnly]>>
                    ELSE <<>>

checkWorkloadForHostPathVolumes(item) ==
    LET podSpec == workloadPodSpec(item)
    IN IF IsMap(podSpec)
       THEN checkPodForHostPathVolumes(podSpec, item.Metadata.Name,
                                       item.Metadata.Namespace, item.Kind)
       ELSE <<>>

RECURSIVE hostPathControllerResults(_)
hostPathControllerResults(items) ==
    IF Len(items) = 0 THEN <<>>
    ELSE (IF IsWorkloadKind(Head(items).Kind)
          THEN checkWorkloadForHostPathVolumes(Head(items))
          ELSE <<>>)
         \o hostPathControllerResults(Tail(items))

RECURSIVE hostPathPodResults(_, _)
hostPathPodResults(items, processedPods) ==
    IF Len(items) = 0 THEN <<>>
    ELSE (IF scannedAsPod(Head(items), processedPods)
          THEN checkPodForHostPathVolumes(Head(items).Spec,
                   Head(items).Metadata.Name, Head(items).Metadata.Namespace,
                   Head(items).Kind)
          ELSE <<>>)
         \o hostPathPodResults(Tail(items), processedPods)

deduplicateHostPathWorkloads(results) ==
    addControlPlanePods(results,
        addControllers(results, [seen |-> {}, uniqueResults |-> <<>>])).uniqueResults

\* results of GetHostPathVolumes before deduplication
hostPathCombined(cfg) ==
    hostPathControllerResults(cfg.Items)
    \o hostPathPodResults(cfg.Items, processedAfter(cfg, Len(cfg.Items)))

GetHostPathVolumes(cfg) ==
    deduplicateHostPathWorkloads(hostPathCombined(cfg))

(***************************************************************************)
(* Documents: the parsed ClusterConfig values the analysis is run on       *)
(***************************************************************************)
\* Longest items list of the enumerated document families.
MaxItems == 2

SeqsUpTo(S, n) == UNION {[1..k -> S] : k \in 0..n}
Range(f) == {f[i] : i \in DOMAIN f}

Item(kind, name, namespace, refs, spec) ==
    [Kind |-> kind,
     Metadata |-> [Name |-> name, Namespace |-> namespace,
                   OwnerReferences |-> refs],
     Spec |-> spec]

appsV1 == <<"a", "p", "p", "s", "/", "v", "1">>

OwnerReference(kind, name, uid, controller) ==
    [APIVersion |-> appsV1, Kind |-> kind, Name |-> name, UID |-> uid,
     Controller |-> controller, BlockOwnerDeletion |-> TRUE]

Node == <<"N", "o", "d", "e">>
web == <<"w", "e", "b">>
api == <<"a", "p", "i">>
etcdA == <<"e", "t", "c", "d", "-", "a">>
nsDefault == <<"d", "f">>
nsSystem == <<"k", "s">>
cName == <<"c">>
dName == <<"d">>
volName == <<"v">>
NetAdmin == <<"N", "E", "T">>
SysAdmin == <<"S", "Y", "S">>
rootPath == <<"/">>
uidA == <<"u", "1">>
uidB == <<"u", "2">>

RiskyContext(caps) ==
    JMap([privileged |-> JBool(TRUE),
          capabilities |-> JMap([add |-> JList([i \in 1..Len(caps) |-> JStr(caps[i])])])])

Container(name, securityContext) ==
    JMap([name |-> JStr(name), securityContext |-> securityContext])

HostPathVolume(name, path) ==
    JMap([name |-> JStr(name), hostPath |-> JMap([path |-> JStr(path)])])

\* A pod spec every detector reports: privileged container cname with an added
\* capability, hostNetwork and one hostPath volume.
RiskyPodSpec(cname) ==
    JMap([hostNetwork |-> JBool(TRUE),
          containers |-> JList(<<Container(cname, RiskyContext(<<NetAdmin>>))>>),
          volumes |-> JList(<<HostPathVolume(volName, rootPath)>>)])

\* A pod spec no detector reports.
PlainPodSpec(cname) ==
    JMap([containers |-> JList(<<JMap([name |-> JStr(cname)])>>)])

Template(podSpec) == JMap([template |-> JMap([spec |-> podSpec])])

\* Longest items list of the documents about one pod and its controllers.
MaxOwnedItems == 3

\* A pod with and without an owner reference, under a usual and a
\* control-plane name, and the controllers the reference can name.
OwnershipItems ==
    {Item(Pod, name, nsDefault, refs, RiskyPodSpec(cName)) :
        name \in {web, etcdA},
        refs \in {<<>>, <<OwnerReference(ReplicaSet, web, uidA, TRUE)>>}}
    \cup {Item(ReplicaSet, web, nsDefault, <<>>, Template(RiskyPodSpec(cName))),
          Item(ReplicaSet, api, nsDefault, <<>>, Template(RiskyPodSpec(cName))),
          Item(Deployment, web, nsDefault, <<>>, Template(RiskyPodSpec(cName)))}

OwnershipDocuments ==
    {[Items |-> items] : items \in SeqsUpTo(OwnershipItems, MaxOwnedItems)}

jobSlashA == <<"J", "o", "b", "/", "a">>
aSlashB == <<"a", "/", "b">>
bName == <<"b">>

\* Pods whose references vary in number, kind, uid and controller flag, in two
\* namespaces, records of workload and other kinds they can name, and a
\* reference whose kind holds the key separator.
ReferenceItems ==
    {Item(Pod, web, nsDefault, refs, RiskyPodSpec(cName)) :
        refs \in {<<OwnerReference(Node, web, uidA, FALSE)>>,
                  <<OwnerReference(Node, web, uidA, FALSE),
                    OwnerReference(ReplicaSet, web, uidB, TRUE)>>,
                  <<OwnerReference(ReplicaSet, api, uidA, TRUE),
                    OwnerReference(ReplicaSet, web, uidA, TRUE)>>,
                  <<OwnerReference(ReplicaSet, web, uidB, FALSE)>>,
                  <<OwnerReference(jobSlashA, bName, uidA, TRUE)>>,
                  <<OwnerReference(Job, aSlashB, uidA, TRUE)>>}}
    \cup {Item(Pod, web, nsSystem,
               <<OwnerReference(ReplicaSet, web, uidB, FALSE)>>, RiskyPodSpec(cName)),
          Item(Pod, web, nsSystem, <<>>, RiskyPodSpec(cName)),
          Item(Pod, etcdA, nsDefault, <<>>, PlainPodSpec(cName))}
    \cup {Item(ReplicaSet, web, ns, <<>>, Template(RiskyPodSpec(cName))) :
             ns \in {nsDefault, nsSystem}}
    \cup {Item(ReplicaSet, web, nsDefault, <<>>, Template(PlainPodSpec(cName))),
          Item(Job, aSlashB, nsDefault, <<>>, Template(RiskyPodSpec(cName))),
          Item(Job, bName, nsDefault, <<>>, Template(RiskyPodSpec(cName))),
          Item(Node, web, nsDefault, <<>>, Nil)}

ReferenceDocuments ==
    {[Items |-> items] : items \in SeqsUpTo(ReferenceItems, MaxItems)}

nsD == <<"d">>
nsPipe == <<"d", "|", "f">>
pipeName == <<"f", "|", "c">>

\* Records of every kind of the precedence order whose containers share a
\* name, and records whose namespace or container name holds the key separator.
PrecedenceItems ==
    {Item(kind, name, nsDefault, <<>>,
          IF kind = Pod THEN RiskyPodSpec(cName) ELSE Template(RiskyPodSpec(cName))) :
        kind \in {Pod, ReplicaSet, Job, DaemonSet, StatefulSet, Deployment},
        name \in {web, api}}
    \cup {Item(CronJob, name, nsDefault, <<>>,
               JMap([jobTemplate |-> JMap([spec |-> Template(RiskyPodSpec(cName))])])) :
             name \in {web, api}}
    \cup {Item(Pod, web, nsDefault, <<>>, RiskyPodSpec(dName)),
          Item(Deployment, web, nsDefault, <<>>, Template(RiskyPodSpec(dName))),
          Item(Pod, web, nsD, <<>>, RiskyPodSpec(pipeName)),
          Item(Deployment, web, nsPipe, <<>>, Template(RiskyPodSpec(cName)))}

PrecedenceDocuments == {[Items |-> items] : items \in SeqsUpTo(PrecedenceItems, MaxItems)}

etcd == <<"e", "t", "c", "d">>
kubeApiserverA == <<"k", "u", "b", "e", "-", "a", "p", "i", "s", "e", "r", "v", "e",
                    "r", "-", "a">>
kubeControllerManagerA == <<"k", "u", "b", "e", "-", "c", "o", "n", "t", "r", "o", "l",
                            "l", "e", "r", "-", "m", "a", "n", "a", "g", "e", "r", "-",
                            "a">>
kubeSchedulerA == <<"k", "u", "b", "e", "-", "s", "c", "h", "e", "d", "u", "l", "e",
                    "r", "-", "a">>
etcPath == <<"/", "e", "t", "c">>

\* A pod spec the host-namespace and hostPath detectors report, with other
\* findings than RiskyPodSpec.
HostPidPodSpec(cname) ==
    JMap([hostPID |-> JBool(TRUE),
          containers |-> JList(<<JMap([name |-> JStr(cname)])>>),
          volumes |-> JList(<<HostPathVolume(volName, etcPath)>>)])

\* Pods with and without a control-plane name, and controllers beside them.
ControlPlaneItems ==
    {Item(Pod, name, nsSystem, <<>>, spec) :
        name \in {etcdA, kubeApiserverA, kubeControllerManagerA, kubeSchedulerA,
                  etcd, web},
        spec \in {RiskyPodSpec(cName), HostPidPodSpec(cName)}}
    \cup {Item(Pod, etcdA, nsSystem, <<>>, PlainPodSpec(cName)),
          Item(Pod, etcdA, nsSystem,
               <<OwnerReference(DaemonSet, web, uidA, TRUE)>>, RiskyPodSpec(cName)),
          Item(DaemonSet, web, nsSystem, <<>>, Template(RiskyPodSpec(cName))),
          Item(DaemonSet, web, nsSystem, <<>>, Template(HostPidPodSpec(cName))),
          Item(DaemonSet, etcdA, nsSystem, <<>>, Template(RiskyPodSpec(cName))),
          Item(DaemonSet, web, nsSystem, <<>>, Template(PlainPodSpec(cName)))}

ControlPlaneDocuments ==
    {[Items |-> items] : items \in SeqsUpTo(ControlPlaneItems, MaxItems)}

lost == <<"l", "o", "s", "t">>
mixed == <<"m", "i", "x", "e", "d">>
cron == <<"c", "r", "o", "n">>
odd == <<"o", "d", "d">>
junk == JStr(<<"x">>)
trueText == JStr(<<"t", "r", "u", "e">>)

\* Containers with an absent or wrongly typed field each, before a well-formed
\* privileged container.
OddContainers ==
    <<junk,
      JMap([name |-> JStr(odd)]),
      JMap([name |-> JStr(odd), securityContext |-> junk]),
      JMap([name |-> JStr(odd),
            securityContext |-> JMap([privileged |-> trueText,
                                      capabilities |-> junk])]),
      JMap([name |-> JStr(odd),
            securityContext |-> JMap([privileged |-> JBool(FALSE),
                                      capabilities |-> JMap([add |-> junk])]),
            ports |-> junk, volumeMounts |-> junk]),
      JMap([name |-> JStr(odd),
            securityContext |-> JMap([privileged |-> Nil,
                                      capabilities |-> JMap([add |-> JList(<<>>)])]),
            ports |-> JList(<<junk, JMap([hostPort |-> trueText])>>),
            volumeMounts |-> JList(<<junk, JMap([name |-> JStr(volName),
                                                 readOnly |-> trueText])>>)]),
      JMap([name |-> JStr(odd),
            securityContext |-> JMap([capabilities |->
                                          JMap([add |-> JList(<<JNum(1, FALSE)>>)])])]),
      Container(cName, RiskyContext(<<NetAdmin>>))>>

\* Volumes with an absent or wrongly typed field each, before a hostPath volume.
OddVolumes ==
    <<junk,
      JMap([name |-> JStr(odd)]),
      JMap([name |-> JStr(odd), hostPath |-> junk]),
      JMap([name |-> JStr(odd), hostPath |-> JMap([path |-> JNum(1, FALSE)])]),
      JMap([name |-> JStr(odd), hostPath |-> JMap([path |-> JStr(<<>>)])]),
      HostPathVolume(volName, rootPath)>>

\* A pod spec whose lists mix malformed and well-formed entries.
MixedPodSpec ==
    JMap([hostNetwork |-> JBool(TRUE), hostPID |-> junk, hostIPC |-> Nil,
          containers |-> JList(OddContainers),
          initContainers |-> junk,
          volumes |-> JList(OddVolumes)])

\* A pod spec none of whose traversed fields has the expected type.
LostPodSpec ==
    JMap([hostNetwork |-> trueText, hostPID |-> JNum(1, FALSE), hostIPC |-> Nil,
          containers |-> junk,
          initContainers |-> JMap(<<>>),
          volumes |-> JMap(<<>>)])

JobTemplate(jobSpec) == JMap([jobTemplate |-> JMap([spec |-> jobSpec])])

\* Records whose spec, template or pod spec is absent or wrongly typed
\* (named lost), records with malformed entries inside a resolvable pod spec
\* (named mixed), CronJobs without a usable jobTemplate beside a template
\* (named cron), and a well-formed StatefulSet.
TraversalItems ==
    {Item(Pod, lost, nsDefault, <<>>, spec) :
        spec \in {Nil, junk, JList(<<>>), LostPodSpec}}
    \cup {Item(Deployment, lost, nsDefault, <<>>, spec) :
             spec \in {Nil, junk, JMap(<<>>), JMap([template |-> junk]),
                       JMap([template |-> JMap(<<>>)]),
                       JMap([template |-> JMap([spec |-> junk])]),
                       Template(LostPodSpec)}}
    \cup {Item(CronJob, lost, nsDefault, <<>>, spec) :
             spec \in {Nil, JMap([jobTemplate |-> JMap(<<>>)]),
                       JobTemplate(junk), JobTemplate(JMap(<<>>)),
                       JobTemplate(JMap([template |-> junk])),
                       JobTemplate(Template(junk))}}
    \cup {Item(CronJob, cron, nsDefault, <<>>, spec) :
             spec \in {Template(RiskyPodSpec(cName)),
                       JMap([jobTemplate |-> junk,
                             template |-> JMap([spec |-> RiskyPodSpec(cName)])]),
                       JMap([jobTemplate |-> JMap([spec |-> junk]),
                             template |-> JMap([spec |-> RiskyPodSpec(cName)])])}}
    \cup {Item(Pod, mixed, nsDefault, <<>>, MixedPodSpec),
          Item(Deployment, mixed, nsDefault, <<>>, Template(MixedPodSpec)),
          Item(CronJob, mixed, nsDefault, <<>>, JobTemplate(Template(MixedPodSpec))),
          Item(StatefulSet, api, nsSystem, <<>>, Template(RiskyPodSpec(cName)))}

TraversalDocuments ==
    {[Items |-> items] : items \in SeqsUpTo(TraversalItems, MaxItems)}

\* Longest volumes list of the volume documents.
MaxVolumes == 2

wName == <<"w">>
iName == <<"i">>

Mount(name, readOnly) == JMap([name |-> JStr(name), readOnly |-> JBool(readOnly)])

MountingContainer(name, volumeMounts) ==
    JMap([name |-> JStr(name), volumeMounts |-> JList(volumeMounts)])

\* Entries of a volumes list: no map, no hostPath, an empty path, two named
\* hostPath volumes and one without a name.
VolumeEntries ==
    {junk,
     JMap([name |-> JStr(volName)]),
     JMap([name |-> JStr(volName), hostPath |-> JMap([path |-> JStr(<<>>)])]),
     HostPathVolume(volName, rootPath),
     HostPathVolume(wName, etcPath),
     JMap([hostPath |-> JMap([path |-> JStr(rootPath)])])}

\* The containers field: volume v unmounted, mounted read-write, read-only,
\* read-write in one container and read-only in the next, another volume
\* mounted read-only, no list, and mounts without a name.
MainContainerLists ==
    {JList(<<JMap([name |-> JStr(cName)])>>),
     JList(<<MountingContainer(cName, <<Mount(volName, FALSE)>>)>>),
     JList(<<MountingContainer(cName, <<Mount(volName, TRUE)>>)>>),
     JList(<<MountingContainer(cName, <<Mount(volName, FALSE)>>),
             MountingContainer(dName, <<Mount(volName, TRUE)>>)>>),
     JList(<<MountingContainer(cName, <<Mount(wName, TRUE)>>)>>),
     junk,
     JList(<<MountingContainer(cName, <<junk, JMap([readOnly |-> JBool(TRUE)])>>)>>)}

\* The initContainers field: absent, volume v mounted read-only, read-write.
InitContainerLists ==
    {Nil,
     JList(<<MountingContainer(iName, <<Mount(volName, TRUE)>>)>>),
     JList(<<MountingContainer(iName, <<Mount(volName, FALSE)>>)>>)}

\* Init containers are given to the pods whose main containers leave volume
\* v unmounted or mount it read-write.
MountingLists ==
    {lists \in MainContainerLists \X InitContainerLists :
        \/ lists[2] = Nil
        \/ lists[1] \in {JList(<<JMap([name |-> JStr(cName)])>>),
                         JList(<<MountingContainer(cName, <<Mount(volName, FALSE)>>)>>)}}

VolumePodSpecs ==
    {JMap([containers |-> lists[1], initContainers |-> lists[2],
           volumes |-> JList(volumes)]) :
        lists \in MountingLists, volumes \in SeqsUpTo(VolumeEntries, MaxVolumes)}

\* One Deployment or one control-plane Pod per document.
VolumeItems ==
    {Item(Deployment, web, nsSystem, <<>>, Template(spec)) : spec \in VolumePodSpecs}
    \cup {Item(Pod, etcdA, nsSystem, <<>>, spec) : spec \in VolumePodSpecs}

VolumeDocuments == {[Items |-> <<item>>] : item \in VolumeItems}

\* Longest containers list of the container documents.
MaxContainers == 2

PrivilegedValues == {JBool(TRUE), JBool(FALSE), trueText, JNum(1, FALSE)}

AddValues ==
    {Nil, JList(<<>>), JList(<<JStr(NetAdmin)>>),
     JList(<<JStr(SysAdmin), JStr(NetAdmin)>>),
     JList(<<JNum(1, FALSE)>>),
     JList(<<JNum(1, FALSE), JStr(NetAdmin)>>)}

\* Entries of a containers list: no map, no securityContext, every value of
\* privileged, and every value of capabilities.add.
ContainerEntries ==
    {junk, JMap([name |-> JStr(cName)])}
    \cup {JMap([name |-> JStr(cName),
                securityContext |-> JMap([privileged |-> p])]) : p \in PrivilegedValues}
    \cup {JMap([name |-> JStr(dName),
                securityContext |-> JMap([capabilities |-> JMap([add |-> a])])]) :
             a \in AddValues}

InitContainerEntries ==
    {Nil,
     JList(<<Container(iName, RiskyContext(<<SysAdmin>>))>>),
     JList(<<JMap([name |-> JStr(iName)])>>)}

\* Init containers are given to the pods of at most one main container.
ContainerPodSpecs ==
    {JMap([containers |-> JList(containers), initContainers |-> Nil]) :
        containers \in SeqsUpTo(ContainerEntries, MaxContainers)}
    \cup {JMap([containers |-> JList(containers), initContainers |-> init]) :
             containers \in SeqsUpTo(ContainerEntries, 1),
             init \in InitContainerEntries}

\* One Deployment or one Pod per document.
ContainerItems ==
    {Item(Deployment, web, nsDefault, <<>>, Template(spec)) : spec \in ContainerPodSpecs}
    \cup {Item(Pod, web, nsDefault, <<>>, spec) : spec \in ContainerPodSpecs}

ContainerDocuments == {[Items |-> <<item>>] : item \in ContainerItems}

nginx == <<"n", "g", "i", "n", "x">>
default == <<"d", "e", "f", "a", "u", "l", "t">>
kindnet == <<"k", "i", "n", "d", "n", "e", "t">>
kindnetCni == <<"k", "i", "n", "d", "n", "e", "t", "-", "c", "n", "i">>
kubeSystem == <<"k", "u", "b", "e", "-", "s", "y", "s", "t", "e", "m">>

\* Pod nginx of namespace default, no owner references, one privileged
\* container nginx.
NginxDocument ==
    [Items |-> <<Item(Pod, nginx, default, <<>>,
                      JMap([containers |->
                                JList(<<JMap([name |-> JStr(nginx),
                                              securityContext |->
                                                  JMap([privileged |-> JBool(TRUE)])])>>)]))>>]

\* DaemonSet kindnet whose pod template has hostNetwork true and one
\* container kindnet-cni without host ports.
KindnetDocument ==
    [Items |-> <<Item(DaemonSet, kindnet, kubeSystem, <<>>,
                      Template(JMap([hostNetwork |-> JBool(TRUE),
                                     containers |->
                                         JList(<<JMap([name |-> JStr(kindnetCni)])>>)])))>>]

\* Deployment web with containers c and d and Deployment api with container
\* c, all privileged with an added capability: the group of container c
\* holds two findings of equal precedence beside the group of container d.
TieDocument ==
    [Items |-> <<Item(Deployment, web, nsDefault, <<>>,
                      Template(JMap([containers |->
                          JList(<<Container(cName, RiskyContext(<<NetAdmin>>)),
                                  Container(dName, RiskyContext(<<NetAdmin>>))>>)]))),
                 Item(Deployment, api, nsDefault, <<>>,
                      Template(JMap([containers |->
                          JList(<<Container(cName, RiskyContext(<<NetAdmin>>))>>)])))>>]

\* A Deployment without host namespaces whose containers repeat a name and
\* a host port, declare the host ports 80.5 and 0.5, and one of which has no
\* name.
PortsDocument ==
    [Items |-> <<Item(Deployment, web, nsDefault, <<>>,
                      Template(
                      JMap([containers |->
                                JList(<<JMap([name |-> JStr(cName),
                                              ports |-> JList(<<JMap([hostPort |-> JNum(80, FALSE)]),
                                                                JMap([hostPort |-> JNum(80, TRUE)])>>)]),
                                        JMap([name |-> JStr(dName)]),
                                        JMap([ports |-> JList(<<JMap([hostPort |-> JNum(0, TRUE)])>>)]),
                                        JMap([name |-> JStr(cName),
                                              ports |-> JList(<<JMap([hostPort |-> JNum(443, FALSE)])>>)])>>),
                            initContainers |->
                                JList(<<JMap([name |-> JStr(dName),
                                              ports |-> JList(<<JMap([hostPort |-> JNum(443, FALSE)])>>)])>>)])))>>]

ScenarioDocuments == {NginxDocument, KindnetDocument, TieDocument, PortsDocument}

PortsValues ==
    {Nil, junk,
     JList(<<JMap([hostPort |-> JNum(80, FALSE)])>>),
     JList(<<JMap([hostPort |-> JNum(0, FALSE)])>>),
     JList(<<JMap([hostPort |-> JNum(0, TRUE)])>>),
     JList(<<JMap([hostPort |-> JNum(0 - 1, FALSE)])>>),
     JList(<<junk, JMap([hostPort |-> trueText]), JMap([containerPort |-> JNum(80, FALSE)])>>)}

\* Pod specifications with every value of the three flags and of the ports
\* of a main container, with and without an init container that declares
\* host port 80.
HostNamespacePodSpecs ==
    {JMap([hostPID |-> hostPID, hostIPC |-> hostIPC, hostNetwork |-> hostNetwork,
           containers |-> JList(<<JMap([name |-> JStr(cName), ports |-> ports])>>),
           initContainers |-> init]) :
        hostPID \in {Nil, JBool(TRUE), JBool(FALSE), trueText},
        hostIPC \in {Nil, JBool(TRUE), JBool(FALSE)},
        hostNetwork \in {Nil, JBool(TRUE), JNum(1, FALSE)},
        ports \in PortsValues,
        init \in {Nil, JList(<<JMap([name |-> JStr(iName),
                                     ports |-> JList(<<JMap([hostPort |->
                                                                JNum(80, FALSE)])>>)])>>)}}

\* One Deployment or one Pod per document.
HostNamespaceItems ==
    {Item(Deployment, web, nsDefault, <<>>, Template(spec)) :
        spec \in HostNamespacePodSpecs}
    \cup {Item(Pod, web, nsDefault, <<>>, spec) : spec \in HostNamespacePodSpecs}

HostNamespaceDocuments == {[Items |-> <<item>>] : item \in HostNamespaceItems}

(***************************************************************************)
(* The analysis run of cmd/analyze.go                                      *)
(***************************************************************************)
\* The orders in which range can visit the n keys of a map.
Iterations(n) == Permutations(1..n)

\* No command has touched the storage directory: the SQLite database holds its
\* two empty tables and the directory holds no *.json file.
NoCommand ==
    [op |-> "none", backend |-> "none", to |-> "none", name |-> <<>>,
     id |-> 0, keepVersions |-> 0, cutoffTime |-> 0, dryRun |-> FALSE,
     force |-> FALSE, failed |-> FALSE, errorCount |-> 0, migrated |-> {}, totalDeleted |-> 0]

EmptyStores ==
    /\ db = [configs |-> {}, security_analysis |-> {}]
    /\ files = {}
    /\ clock = 0
    /\ uuids = 0
    /\ command = NoCommand

Init ==
    /\ \/ config \in OwnershipDocuments
       \/ config \in ReferenceDocuments
       \/ config \in PrecedenceDocuments
       \/ config \in ControlPlaneDocuments
       \/ config \in TraversalDocuments
       \/ config \in VolumeDocuments
       \/ config \in ContainerDocuments
       \/ config \in HostNamespaceDocuments
       \/ config \in ScenarioDocuments
    /\ pc = "parsed"
    /\ resourceCounts = <<>>
    /\ privilegedContainers = <<>>
    /\ capabilityContainers = <<>>
    /\ hostNamespaceWorkloads = <<>>
    /\ hostPathVolumes = <<>>
    /\ EmptyStores

CountResources ==
    /\ pc = "parsed"
    /\ resourceCounts' = GetResourceCounts(config)
    /\ pc' = "counted"
    /\ UNCHANGED <<config, privilegedContainers, capabilityContainers,
                   hostNamespaceWorkloads, hostPathVolumes>>
    /\ UNCHANGED storeVars

FindPrivileged ==
    /\ pc = "counted"
    /\ \E iteration \in
           Iterations(Len(containerKeys(privilegedCombined(config), <<>>))) :
           privilegedContainers' = GetPrivilegedContainers(config, iteration)
    /\ pc' = "privileged"
    /\ UNCHANGED <<config, resourceCounts, capabilityContainers,
                   hostNamespaceWorkloads, hostPathVolumes>>
    /\ UNCHANGED storeVars

FindCapabilities ==
    /\ pc = "privileged"
    /\ \E iteration \in
           Iterations(Len(containerKeys(capabilityCombined(config), <<>>))) :
           capabilityContainers' = GetCapabilityContainers(config, iteration)
    /\ pc' = "capability"
    /\ UNCHANGED <<config, resourceCounts, privilegedContainers,
                   hostNamespaceWorkloads, hostPathVolumes>>
    /\ UNCHANGED storeVars

FindHostNamespaces ==
    /\ pc = "capability"
    /\ hostNamespaceWorkloads' = GetHostNamespaceWorkloads(config)
    /\ pc' = "hostNamespace"
    /\ UNCHANGED <<config, resourceCounts, privilegedContainers,
                   capabilityContainers, hostPathVolumes>>
    /\ UNCHANGED storeVars

FindHostPaths ==
    /\ pc = "hostNamespace"
    /\ hostPathVolumes' = GetHostPathVolumes(config)
    /\ pc' = "done"
    /\ UNCHANGED <<config, resourceCounts, privilegedContainers,
                   capabilityContainers, hostNamespaceWorkloads>>
    /\ UNCHANGED storeVars

\* The export command analyses the same stored configuration once more.
ExportAnalysis ==
    /\ pc = "done"
    /\ resourceCounts' = GetResourceCounts(config)
    /\ \E iteration \in
           Iterations(Len(containerKeys(privilegedCombined(config), <<>>))) :
           privilegedContainers' = GetPrivilegedContainers(config, iteration)
    /\ \E iteration \in
           Iterations(Len(containerKeys(capabilityCombined(config), <<>>))) :
           capabilityContainers' = GetCapabilityContainers(config, iteration)
    /\ hostNamespaceWorkloads' = GetHostNamespaceWorkloads(config)
    /\ hostPathVolumes' = GetHostPathVolumes(config)
    /\ pc' = "exported"
    /\ UNCHANGED config
    /\ UNCHANGED storeVars

Next ==
    \/ CountResources
    \/ FindPrivileged
    \/ FindCapabilities
    \/ FindHostNamespaces
    \/ FindHostPaths
    \/ ExportAnalysis

Spec == Init /\ [][Next]_vars

(***************************************************************************)
(* The storage backends of package storage: the SQLite database (tables    *)
(* configs and security_analysis) and the directory of *.json files        *)
(***************************************************************************)
\* Rows the configs table receives over a run (calls of uuid.New).
MaxVersions == 4
\* Instants at which ingest and migrate read time.Now.
MaxClock == 4

prod == <<"p", "r", "o", "d">>
dev == <<"d", "e", "v">>
\* The names in use, as ORDER BY name and os.ReadDir list them.
ConfigNames == <<dev, prod>>
StoredDocuments == {NginxDocument, KindnetDocument}
Backends == {"file", "sqlite"}

NoDocument == [Items |-> <<>>]
Loaded(cfg) == [config |-> cfg, err |-> FALSE]
NotFound == [config |-> NoDocument, err |-> TRUE]

RowsOf(database, name) == {r \in database.configs : r.name = name}

\* A mutant of LatestRows: ORDER BY timestamp, ascending.
EarliestRows(database, name) ==
    {r \in RowsOf(database, name) :
        \A other \in RowsOf(database, name) : r.timestamp <= other.timestamp}

\* The rows a SELECT ... WHERE name = ? ORDER BY timestamp DESC LIMIT 1 can
\* return: SQLite leaves the order of rows of equal timestamp open.
LatestRows(database, name) ==
    {r \in RowsOf(database, name) :
        \A other \in RowsOf(database, name) : other.timestamp <= r.timestamp}

\* The orders a sort by timestamp, newest first, can leave a set of rows in.
NewestFirst(rows) ==
    LET n == Cardinality(rows)
    IN  {h \in [1..n -> rows] :
            /\ \A i, j \in 1..n : i # j => h[i] # h[j]
            /\ \A i \in 1..(n - 1) : h[i].timestamp >= h[i + 1].timestamp}

\* The row saveSecurityAnalysis inserts. Its four JSON columns are the
\* findings of the row's raw_data (StoredSecurityAnalysis below computes
\* them), so the row keeps the key alone.
saveSecurityAnalysis(configID, cfg) == [config_id |-> configID]

\* The analyses a security_analysis row can hold for a configuration: one for
\* every order in which the two deduplications range over their maps.
StoredSecurityAnalysis(configID, cfg) ==
    {[config_id |-> configID,
      privileged_containers |-> GetPrivilegedContainers(cfg, privilegedOrder),
      capability_containers |-> GetCapabilityContainers(cfg, capabilityOrder),
      host_namespace_workloads |-> GetHostNamespaceWorkloads(cfg),
      host_path_volumes |-> GetHostPathVolumes(cfg)] :
        privilegedOrder \in
            Iterations(Len(containerKeys(privilegedCombined(cfg), <<>>))),
        capabilityOrder \in
            Iterations(Len(containerKeys(capabilityCombined(cfg), <<>>)))}

\* An identifier no row carries: the empty ID of a metadata record.
NoID == 0
\* The zero time.Time of a metadata record without a timestamp.
ZeroTime == 0
\* The nil map of a metadata record without resource counts.
NoCounts == <<>>

\* The database SaveConfigWithMetadata leaves. uuid is the identifier
\* uuid.New issues for a metadata record that carries none and now is the
\* time.Now of a record without a timestamp. Both INSERTs belong to one
\* transaction: when the primary key id of configs or config_id of
\* security_analysis is taken, the INSERT fails, the deferred Rollback undoes
\* the transaction and the database is as before (the error is returned).
SaveConfigWithMetadata(database, uuid, now, cfg, metadata) ==
    LET id == IF metadata.ID = NoID THEN uuid ELSE metadata.ID
        timestamp == IF metadata.Timestamp = ZeroTime
                     THEN now
                     ELSE metadata.Timestamp
        counts == IF DOMAIN metadata.ResourceCounts = {}
                  THEN GetResourceCounts(cfg)
                  ELSE metadata.ResourceCounts
    IN  IF \E r \in database.configs : r.id = id
        THEN database
        ELSE IF \E a \in database.security_analysis : a.config_id = id
        THEN database
        ELSE [configs |-> database.configs \cup
                              {[id |-> id, name |-> metadata.Name,
                                timestamp |-> timestamp, raw_data |-> cfg,
                                resource_counts |-> counts]},
              security_analysis |-> database.security_analysis \cup
                                        {saveSecurityAnalysis(id, cfg)}]

\* Whether SaveConfigWithMetadata returns an error: "failed to insert
\* config" or "failed to save security analysis".
SaveConfigWithMetadataError(database, uuid, metadata) ==
    LET id == IF metadata.ID = NoID THEN uuid ELSE metadata.ID
    IN  \/ \E r \in database.configs : r.id = id
        \/ \E a \in database.security_analysis : a.config_id = id

SaveConfig(database, id, now, cfg, name) ==
    SaveConfigWithMetadata(database, id, now, cfg,
        [ID |-> id, Name |-> name, Timestamp |-> now,
         ResourceCounts |-> GetResourceCounts(cfg)])

\* The results LoadConfig(name) can return.
LoadConfig(database, name) ==
    IF RowsOf(database, name) = {}
    THEN {NotFound}
    ELSE {Loaded(r.raw_data) : r \in LatestRows(database, name)}

\* SELECT DISTINCT name FROM configs ORDER BY name
ListConfigs(database) ==
    SelectSeq(ConfigNames, LAMBDA name : RowsOf(database, name) # {})

\* The histories GetConfigHistory(name) can return.
GetConfigHistory(database, name) == NewestFirst(RowsOf(database, name))

\* A mutant of DeleteConfig: the row of security_analysis is left to
\* ON DELETE CASCADE, which SQLite applies only under PRAGMA foreign_keys.
DeleteConfigByCascade(database, id) ==
    [configs |-> {r \in database.configs : r.id # id},
     security_analysis |-> database.security_analysis]

\* DeleteConfig(id): both deletions are committed together, and rolled back
\* together when no row of configs has the id.
DeleteConfig(database, id) ==
    IF \E r \in database.configs : r.id = id
    THEN [configs |-> {r \in database.configs : r.id # id},
          security_analysis |->
              {a \in database.security_analysis : a.config_id # id}]
    ELSE database

\* Whether DeleteConfig(id) returns "configuration with ID '%s' not found":
\* rowsAffected == 0.
DeleteConfigError(database, id) == ~\E r \in database.configs : r.id = id

\* The file store: one file <name>.json per name, with its modification time.
FileSaveConfig(dir, cfg, name, now) ==
    {f \in dir : f.name # name} \cup {[name |-> name, data |-> cfg, modTime |-> now]}

FileOf(dir, name) == CHOOSE f \in dir : f.name = name

FileLoadConfig(dir, name) ==
    IF \E f \in dir : f.name = name
    THEN {Loaded(FileOf(dir, name).data)}
    ELSE {NotFound}

FileListConfigs(dir) ==
    SelectSeq(ConfigNames, LAMBDA name : \E f \in dir : f.name = name)

FileGetConfigMetadata(dir, name) ==
    [Name |-> name, Timestamp |-> FileOf(dir, name).modTime,
     ResourceCounts |-> GetResourceCounts(FileOf(dir, name).data)]

(***************************************************************************)
(* cmd/cleanup.go                                                          *)
(***************************************************************************)
KeepVersionsValues == {1, 2}
OlderThanValues == {1}
\* --name: empty for every configuration, or one name.
NameFilters == {<<>>, prod}
\* Exactly one of --keep-versions and --older-than is given; the cutoff time
\* keeps its zero value when --older-than is absent.
CleanupOptions ==
    {[keepVersions |-> k, olderThan |-> 0] : k \in KeepVersionsValues}
        \cup {[keepVersions |-> 0, olderThan |-> d] : d \in OlderThanValues}

\* A mutant of toDelete: one version more than asked for is kept.
toDeleteAfterOneMore(history, keepVersions, cutoffTime) ==
    IF Len(history) > keepVersions + 1
    THEN [i \in 1..(Len(history) - keepVersions - 1) |->
              history[keepVersions + 1 + i].id]
    ELSE <<>>

RECURSIVE olderVersions(_, _)
olderVersions(versions, cutoffTime) ==
    IF versions = <<>>
    THEN <<>>
    ELSE (IF Head(versions).timestamp < cutoffTime
          THEN <<Head(versions).id>>
          ELSE <<>>) \o olderVersions(Tail(versions), cutoffTime)

\* A mutant of toDelete: with --older-than the latest version is examined
\* like the others.
toDeleteEveryOlder(history, keepVersions, cutoffTime) ==
    IF keepVersions > 0
    THEN IF Len(history) > keepVersions
         THEN [i \in 1..(Len(history) - keepVersions) |->
                   history[keepVersions + i].id]
         ELSE <<>>
    ELSE olderVersions(history, cutoffTime)

\* The identifiers performSQLiteCleanup collects from a sorted history.
toDelete(history, keepVersions, cutoffTime) ==
    IF keepVersions > 0
    THEN IF Len(history) > keepVersions
         THEN [i \in 1..(Len(history) - keepVersions) |->
                   history[keepVersions + i].id]
         ELSE <<>>
    ELSE olderVersions(Tail(history), cutoffTime)

RECURSIVE deleteVersions(_, _)
deleteVersions(database, ids) ==
    IF ids = <<>>
    THEN database
    ELSE deleteVersions(DeleteConfig(database, Head(ids)), Tail(ids))

\* A mutant of cleanupVersions: the versions are deleted in a dry run too.
cleanupVersionsInDryRun(run, sorted, cutoffTime, keepVersions, cleanupDryRun) ==
    LET ids == toDelete(sorted, keepVersions, cutoffTime)
    IN  [db |-> deleteVersions(run.db, ids),
         totalDeleted |-> run.totalDeleted + Len(ids)]

\* One name of the loop of performSQLiteCleanup, from its sorted history: the
\* database and the count of versions deleted (or, in a dry run, listed).
cleanupVersions(run, sorted, cutoffTime, keepVersions, cleanupDryRun) ==
    LET ids == toDelete(sorted, keepVersions, cutoffTime)
    IN  [db |-> IF cleanupDryRun THEN run.db ELSE deleteVersions(run.db, ids),
         totalDeleted |-> run.totalDeleted + Len(ids)]

\* The loop of performSQLiteCleanup over the listed names: the outcomes it
\* can have, one for every order sort.Slice can give versions of equal
\* timestamp.
RECURSIVE cleanupConfigs(_, _, _, _, _, _)
cleanupConfigs(run, configs, cleanupConfigName, cutoffTime, keepVersions, cleanupDryRun) ==
    IF configs = <<>>
    THEN {run}
    ELSE LET configName == Head(configs)
             rest(r) == cleanupConfigs(r, Tail(configs), cleanupConfigName,
                                       cutoffTime, keepVersions, cleanupDryRun)
         IN  IF cleanupConfigName # <<>> /\ configName # cleanupConfigName
             THEN rest(run)
             ELSE UNION {IF Len(history) <= 1
                         THEN rest(run)
                         ELSE UNION {rest(cleanupVersions(run, sorted, cutoffTime,
                                              keepVersions, cleanupDryRun)) :
                                        sorted \in NewestFirst(Range(history))} :
                            history \in GetConfigHistory(run.db, configName)}

performSQLiteCleanup(database, cleanupConfigName, cutoffTime, keepVersions, cleanupDryRun) ==
    cleanupConfigs([db |-> database, totalDeleted |-> 0], ListConfigs(database),
                   cleanupConfigName, cutoffTime, keepVersions, cleanupDryRun)

\* The files performFileCleanup finds older than the cutoff.
olderFiles(dir, cleanupConfigName, cutoffTime) ==
    {f \in dir : /\ cleanupConfigName = <<>> \/ f.name = cleanupConfigName
                 /\ f.modTime < cutoffTime}

performFileCleanup(dir, cleanupConfigName, cutoffTime, cleanupDryRun) ==
    LET older == olderFiles(dir, cleanupConfigName, cutoffTime)
    IN  [files |-> IF cleanupDryRun THEN dir ELSE dir \ older,
         totalDeleted |-> Cardinality(older)]

(***************************************************************************)
(* cmd/migrate.go                                                          *)
(***************************************************************************)
\* A mutant of destinationNotEmpty: one configuration in the destination is
\* let through.
destinationHoldsSeveral(dryRun, force, destConfigs) ==
    ~dryRun /\ ~force /\ Len(destConfigs) > 1

\* The test of performMigration that ends the run with "destination backend
\* not empty"; it is reached when the source lists a configuration.
destinationNotEmpty(dryRun, force, destConfigs) ==
    ~dryRun /\ ~force /\ Len(destConfigs) > 0

\* The outcomes of migrateConfiguration for one name of the source: the
\* stores it leaves and the configuration it loaded.
migrateConfiguration(stores, configName, from, to, now) ==
    IF from = "file" /\ to = "sqlite"
    THEN {[db |-> SaveConfigWithMetadata(stores.db, stores.uuids + 1, now,
                      source.config,
                      [ID |-> NoID, Name |-> configName,
                       Timestamp |-> FileGetConfigMetadata(stores.files,
                                                           configName).Timestamp,
                       ResourceCounts |-> GetResourceCounts(source.config)]),
           files |-> stores.files, uuids |-> stores.uuids + 1,
           loaded |-> source.config] :
             source \in FileLoadConfig(stores.files, configName)}
    ELSE {[db |-> stores.db,
           files |-> FileSaveConfig(stores.files, source.config, configName, now),
           uuids |-> stores.uuids, loaded |-> source.config] :
             source \in LoadConfig(stores.db, configName)}

\* The loop of performMigration over the names of the source.
RECURSIVE migrateConfigurations(_, _, _, _, _)
migrateConfigurations(run, configs, from, to, now) ==
    IF configs = <<>>
    THEN {run}
    ELSE UNION {migrateConfigurations(
                    [db |-> m.db, files |-> m.files, uuids |-> m.uuids,
                     migrated |-> run.migrated \cup
                                      {[name |-> Head(configs),
                                        config |-> m.loaded]}],
                    Tail(configs), from, to, now) :
                  m \in migrateConfiguration(run, Head(configs), from, to, now)}

(***************************************************************************)
(* The commands run against one storage directory                          *)
(***************************************************************************)
\* eolas ingest --backend b --name n: SaveConfig of the parsed document.
Ingest ==
    \E storageBackend \in Backends, clusterName \in Range(ConfigNames),
       document \in StoredDocuments :
        /\ clock < MaxClock
        /\ storageBackend = "sqlite" => uuids < MaxVersions
        /\ clock' = clock + 1
        /\ IF storageBackend = "sqlite"
           THEN /\ db' = SaveConfig(db, uuids + 1, clock + 1, document,
                                    clusterName)
                /\ uuids' = uuids + 1
                /\ UNCHANGED files
           ELSE /\ files' = FileSaveConfig(files, document, clusterName, clock + 1)
                /\ UNCHANGED <<db, uuids>>
        /\ command' = [NoCommand EXCEPT !.op = "ingest",
                                        !.backend = storageBackend,
                                        !.name = clusterName]
        /\ UNCHANGED analysisVars

\* eolas cleanup --backend b [--name n] (--keep-versions k | --older-than d)
Cleanup ==
    \E cleanupStorageBackend \in Backends, cleanupConfigName \in NameFilters,
       option \in CleanupOptions, cleanupDryRun \in BOOLEAN :
        LET cutoffTime == IF option.olderThan = 0
                          THEN 0
                          ELSE clock - option.olderThan
            started == [NoCommand EXCEPT !.op = "cleanup",
                                         !.backend = cleanupStorageBackend,
                                         !.name = cleanupConfigName,
                                         !.keepVersions = option.keepVersions,
                                         !.cutoffTime = cutoffTime,
                                         !.dryRun = cleanupDryRun]
        IN  /\ IF cleanupStorageBackend = "sqlite"
               THEN /\ \E cleaned \in performSQLiteCleanup(db, cleanupConfigName,
                                          cutoffTime, option.keepVersions,
                                          cleanupDryRun) :
                          /\ db' = cleaned.db
                          /\ command' = [started EXCEPT
                                            !.totalDeleted = cleaned.totalDeleted]
                    /\ UNCHANGED files
               ELSE LET cleaned == performFileCleanup(files, cleanupConfigName,
                                                     cutoffTime, cleanupDryRun)
                    IN  /\ files' = cleaned.files
                        /\ command' = [started EXCEPT
                                          !.totalDeleted = cleaned.totalDeleted]
                        /\ UNCHANGED db
            /\ UNCHANGED <<clock, uuids, analysisVars>>

\* eolas migrate --from a --to b [--dry-run] [--force]
Migrate ==
    \E migrateFrom \in Backends, migrateDryRun \in BOOLEAN,
       migrateForce \in BOOLEAN :
        LET migrateTo == IF migrateFrom = "file" THEN "sqlite" ELSE "file"
            configs == IF migrateFrom = "file"
                       THEN FileListConfigs(files)
                       ELSE ListConfigs(db)
            destConfigs == IF migrateTo = "file"
                           THEN FileListConfigs(files)
                           ELSE ListConfigs(db)
            started == [NoCommand EXCEPT !.op = "migrate",
                                         !.backend = migrateFrom,
                                         !.to = migrateTo,
                                         !.dryRun = migrateDryRun,
                                         !.force = migrateForce]
        IN  /\ clock < MaxClock
            /\ migrateTo = "sqlite" => uuids + Len(configs) <= MaxVersions
            /\ clock' = clock + 1
            /\ IF configs = <<>>
               THEN /\ command' = started
                    /\ UNCHANGED <<db, files, uuids>>
               ELSE IF destinationNotEmpty(migrateDryRun, migrateForce,
                                           destConfigs)
               THEN /\ command' = [started EXCEPT !.failed = TRUE]
                    /\ UNCHANGED <<db, files, uuids>>
               ELSE IF migrateDryRun
               THEN /\ command' = started
                    /\ UNCHANGED <<db, files, uuids>>
               ELSE \E run \in migrateConfigurations(
                                   [db |-> db, files |-> files, uuids |-> uuids,
                                    migrated |-> {}],
                                   configs, migrateFrom, migrateTo, clock + 1) :
                        /\ db' = run.db
                        /\ files' = run.files
                        /\ uuids' = run.uuids
                        /\ command' = [started EXCEPT !.migrated = run.migrated]
            /\ UNCHANGED analysisVars

StoreInit ==
    /\ config = NoDocument
    /\ pc = "parsed"
    /\ resourceCounts = <<>>
    /\ privilegedContainers = <<>>
    /\ capabilityContainers = <<>>
    /\ hostNamespaceWorkloads = <<>>
    /\ hostPathVolumes = <<>>
    /\ EmptyStores

StoreNext ==
    \/ Ingest
    \/ Cleanup
    \/ Migrate

StoreSpec == StoreInit /\ [][StoreNext]_vars


(***************************************************************************)
(* The calls a holder of one SQLiteStore makes                             *)
(***************************************************************************)
\* The metadata records SaveConfigWithMetadata is called with: the ID is
\* empty or one issued before (of a stored or of a deleted row), the
\* timestamp is zero or an instant up to now, the counts are nil or computed.
MetadataRecords(cfg) ==
    {[ID |-> id, Name |-> name, Timestamp |-> timestamp, ResourceCounts |-> counts] :
        id \in {NoID} \cup 1..uuids, name \in Range(ConfigNames),
        timestamp \in {ZeroTime} \cup 1..clock,
        counts \in {NoCounts, GetResourceCounts(cfg)}}

\* store.SaveConfig(config, name)
CallSaveConfig ==
    \E clusterName \in Range(ConfigNames), document \in StoredDocuments :
        /\ clock < MaxClock
        /\ uuids < MaxVersions
        /\ db' = SaveConfig(db, uuids + 1, clock + 1, document, clusterName)
        /\ uuids' = uuids + 1
        /\ clock' = clock + 1
        /\ command' = [NoCommand EXCEPT !.op = "SaveConfig",
                                        !.name = clusterName,
                                        !.id = uuids + 1]
        /\ UNCHANGED <<files, analysisVars>>

\* store.SaveConfigWithMetadata(config, metadata)
CallSaveConfigWithMetadata ==
    \E document \in StoredDocuments :
        \E metadata \in MetadataRecords(document) :
            /\ clock < MaxClock
            /\ uuids < MaxVersions
            /\ db' = SaveConfigWithMetadata(db, uuids + 1, clock + 1, document,
                                            metadata)
            /\ uuids' = IF metadata.ID = NoID THEN uuids + 1 ELSE uuids
            /\ clock' = clock + 1
            /\ command' = [NoCommand EXCEPT !.op = "SaveConfigWithMetadata",
                                            !.name = metadata.Name,
                                            !.id = IF metadata.ID = NoID
                                                   THEN uuids + 1
                                                   ELSE metadata.ID,
                                            !.failed =
                                                SaveConfigWithMetadataError(
                                                    db, uuids + 1, metadata)]
            /\ UNCHANGED <<files, analysisVars>>

\* store.DeleteConfig(id), of an identifier issued or not
CallDeleteConfig ==
    \E id \in 1..MaxVersions :
        /\ db' = DeleteConfig(db, id)
        /\ command' = [NoCommand EXCEPT !.op = "DeleteConfig",
                                        !.id = id,
                                        !.failed = DeleteConfigError(db, id)]
        /\ UNCHANGED <<files, clock, uuids, analysisVars>>

SQLiteNext ==
    \/ CallSaveConfig
    \/ CallSaveConfigWithMetadata
    \/ CallDeleteConfig

SQLiteSpec == StoreInit /\ [][SQLiteNext]_vars

(***************************************************************************)
(* Vocabulary of the properties                                            *)
(***************************************************************************)
PrivilegedDone == pc \in {"privileged", "capability", "hostNamespace", "done", "exported"}
CapabilityDone == pc \in {"capability", "hostNamespace", "done", "exported"}
HostNamespaceDone == pc \in {"hostNamespace", "done", "exported"}
HostPathDone == pc \in {"done", "exported"}

\* The state in which all four Get* calls of the analyze command have returned
\* and nothing has been exported yet.
AnalysisDone == pc = "done"


Records == DOMAIN config.Items
Refs(i) == Range(config.Items[i].Metadata.OwnerReferences)
PodRecords == {i \in Records : config.Items[i].Kind = Pod}
WorkloadRecords == {i \in Records : IsWorkloadKind(config.Items[i].Kind)}

\* An owner reference of record i has the kind and the name of workload record j.
RefersTo(i, j) ==
    \E r \in Refs(i) :
        /\ r.Kind = config.Items[j].Kind
        /\ r.Name = config.Items[j].Metadata.Name

\* Pod record i names a controller that is present in the document.
ControllerPresent(i) == \E j \in WorkloadRecords : RefersTo(i, j)

SamePair(f, g) == f.Namespace = g.Namespace /\ f.Name = g.Name

OneFindingPerPair(findings) ==
    \A i, j \in DOMAIN findings : SamePair(findings[i], findings[j]) => i = j

PrivilegedOfPod(i) ==
    processPrivilegedContainersInPod(config.Items[i], config.Items[i].Metadata.Name,
        config.Items[i].Metadata.Namespace, config.Items[i].Kind)

(***************************************************************************)
(* C1: in a document where some Pod's owner references name a controller   *)
(* (kind, name) that is present, GetPrivilegedContainers and               *)
(* GetCapabilityContainers return no two findings of the same              *)
(* (namespace, container name) pair: each pair they report, they report    *)
(* exactly once.                                                           *)
(***************************************************************************)
C1_OneFindingPerPair ==
    (\E i \in PodRecords : ControllerPresent(i)) =>
        /\ PrivilegedDone => OneFindingPerPair(privilegedContainers)
        /\ CapabilityDone => OneFindingPerPair(capabilityContainers)

\* A pod with a privileged container whose controller is present, several
\* findings of one pair before deduplication, one finding returned.
C1_Witness ==
    /\ pc = "done"
    /\ \E i \in PodRecords : ControllerPresent(i) /\ Len(PrivilegedOfPod(i)) > 0
    /\ Len(privilegedCombined(config)) > 1
    /\ Len(capabilityCombined(config)) > 1
    /\ Len(privilegedContainers) = 1
    /\ Len(capabilityContainers) = 1

(***************************************************************************)
(* C2: a Pod none of whose owner references matches a workload record of   *)
(* the document is scanned in the second pass of GetPrivilegedContainers:  *)
(* each of its privileged containers is reported, with Kind "Pod" unless a *)
(* controller finding of the same pair takes precedence.                   *)
(***************************************************************************)
C2_UnmatchedPodReported ==
    PrivilegedDone =>
        \A i \in PodRecords :
            ~ControllerPresent(i) =>
                \A f \in Range(PrivilegedOfPod(i)) :
                    \/ f \in Range(privilegedContainers)
                    \/ \E g \in Range(privilegedControllerResults(config.Items)) :
                           SamePair(f, g)

\* Pod record i is run through the detector in the second pass of
\* GetHostNamespaceWorkloads and GetHostPathVolumes.
SecondPass(i) ==
    scannedAsPod(config.Items[i], processedAfter(config, Len(config.Items)))

PodKeyOf(i) ==
    SlashKey(config.Items[i].Metadata.Namespace, config.Items[i].Metadata.Name)

\* Some Pod record with the namespace/name key of record i has an owner
\* reference whose kind/name key is the kind/name key of a workload record.
KeyRepresented(i) ==
    \E p \in PodRecords, j \in WorkloadRecords :
        /\ PodKeyOf(p) = PodKeyOf(i)
        /\ \E r \in Refs(p) :
               SlashKey(r.Kind, r.Name) =
                   SlashKey(config.Items[j].Kind, config.Items[j].Metadata.Name)

(***************************************************************************)
(* C3 as stated: a Pod record is run through the detector in the second    *)
(* pass of GetHostNamespaceWorkloads / GetHostPathVolumes if and only if   *)
(* no workload-kind record has the (kind, name) of one of the Pod's owner  *)
(* references.                                                             *)
(***************************************************************************)
C3_ScannedIffUnowned ==
    pc = "done" => \A i \in PodRecords : SecondPass(i) <=> ~ControllerPresent(i)

(***************************************************************************)
(* C3 amended: a Pod record is run through the detector in the second pass *)
(* if and only if no Pod record of the same "namespace/name" key has an    *)
(* owner reference whose "kind/name" key is that of a workload-kind record *)
(* of the document.                                                        *)
(***************************************************************************)
C3_ScannedIffKeyUnmarked ==
    pc = "done" => \A i \in PodRecords : SecondPass(i) <=> ~KeyRepresented(i)

\* A pod is skipped for a reference that names a present controller, and a
\* pod of another name in the same document is scanned.
C3_Witness ==
    /\ pc = "done"
    /\ \E i, j \in PodRecords :
           /\ ControllerPresent(i) /\ ~SecondPass(i)
           /\ ~KeyRepresented(j) /\ SecondPass(j)

etcdDash == <<"e", "t", "c", "d", "-">>
kubeApiserverDash == <<"k", "u", "b", "e", "-", "a", "p", "i", "s", "e", "r", "v",
                       "e", "r", "-">>
kubeControllerManagerDash == <<"k", "u", "b", "e", "-", "c", "o", "n", "t", "r", "o",
                               "l", "l", "e", "r", "-", "m", "a", "n", "a", "g", "e",
                               "r", "-">>
kubeSchedulerDash == <<"k", "u", "b", "e", "-", "s", "c", "h", "e", "d", "u", "l", "e",
                       "r", "-">>

HasControlPlaneName(name) ==
    \E prefix \in {etcdDash, kubeApiserverDash, kubeControllerManagerDash,
                   kubeSchedulerDash} : HasPrefix(name, prefix)

FindingKey(f) == SlashKey3(f.Namespace, f.Kind, f.Name)

\* results[k] is the first entry of results with its namespace/kind/name key.
FirstOfKey(results, k) ==
    \A m \in 1..(k - 1) : FindingKey(results[m]) # FindingKey(results[k])

\* f is the first finding of its key in results.
IsFirstOfKey(results, f) ==
    \E k \in DOMAIN results : results[k] = f /\ FirstOfKey(results, k)

PodFindings(results) == {f \in Range(results) : f.Kind = Pod}
NonPodFindings(results) == {f \in Range(results) : f.Kind # Pod}

HostNamespacesOfPod(i) ==
    checkPodForHostNamespaces(config.Items[i].Spec, config.Items[i].Metadata.Name,
        config.Items[i].Metadata.Namespace, config.Items[i].Kind)

HostPathsOfPod(i) ==
    checkPodForHostPathVolumes(config.Items[i].Spec, config.Items[i].Metadata.Name,
        config.Items[i].Metadata.Namespace, config.Items[i].Kind)

PodFindingFor(results, i) ==
    \E f \in PodFindings(results) :
        /\ f.Name = config.Items[i].Metadata.Name
        /\ f.Namespace = config.Items[i].Metadata.Namespace

(***************************************************************************)
(* C5: every Pod record with a control-plane name whose spec uses a host   *)
(* namespace, a host port or a hostPath volume has a Pod-kind finding in   *)
(* the result of GetHostNamespaceWorkloads / GetHostPathVolumes, whatever  *)
(* its owner references and the controllers of the document.               *)
(***************************************************************************)
C5_ControlPlanePodRetained ==
    \A i \in PodRecords :
        HasControlPlaneName(config.Items[i].Metadata.Name) =>
            /\ (HostNamespaceDone /\ Len(HostNamespacesOfPod(i)) > 0) =>
                   PodFindingFor(hostNamespaceWorkloads, i)
            /\ (HostPathDone /\ Len(HostPathsOfPod(i)) > 0) =>
                   PodFindingFor(hostPathVolumes, i)

\* The workload records whose pod template triggers the detector.
HostNamespaceTriggers ==
    {i \in WorkloadRecords : Len(checkWorkloadForHostNamespaces(config.Items[i])) > 0}
HostPathTriggers ==
    {i \in WorkloadRecords : Len(checkWorkloadForHostPathVolumes(config.Items[i])) > 0}

\* The positions of the non-Pod findings of a result.
NonPodPositions(results) == {k \in DOMAIN results : results[k].Kind # Pod}

(***************************************************************************)
(* C6 as stated: policy B keeps every finding a workload-kind record       *)
(* produces, and the number of non-Pod findings returned is the number of  *)
(* workload records that triggered the detector.                           *)
(***************************************************************************)
C6_AllControllerFindingsKept ==
    /\ HostNamespaceDone =>
           /\ \A f \in Range(hostNamespaceControllerResults(config.Items)) :
                  f \in Range(hostNamespaceWorkloads)
           /\ Cardinality(NonPodPositions(hostNamespaceWorkloads)) =
                  Cardinality(HostNamespaceTriggers)
    /\ HostPathDone =>
           /\ \A f \in Range(hostPathControllerResults(config.Items)) :
                  f \in Range(hostPathVolumes)
           /\ Cardinality(NonPodPositions(hostPathVolumes)) =
                  Cardinality(HostPathTriggers)

(***************************************************************************)
(* C6 amended: policy B keeps, of the findings workload-kind records       *)
(* produce, exactly the first of every "namespace/kind/name" key, whatever *)
(* other kinds share the name: the number of non-Pod findings returned is  *)
(* the number of distinct keys among them.                                 *)
(***************************************************************************)
C6_FirstOfEachControllerKeyKept ==
    /\ HostNamespaceDone =>
           LET found == hostNamespaceControllerResults(config.Items)
           IN /\ \A f \in Range(found) :
                     f \in Range(hostNamespaceWorkloads) <=> IsFirstOfKey(found, f)
              /\ Cardinality(NonPodPositions(hostNamespaceWorkloads)) =
                     Cardinality({FindingKey(f) : f \in Range(found)})
    /\ HostPathDone =>
           LET found == hostPathControllerResults(config.Items)
           IN /\ \A f \in Range(found) :
                     f \in Range(hostPathVolumes) <=> IsFirstOfKey(found, f)
              /\ Cardinality(NonPodPositions(hostPathVolumes)) =
                     Cardinality({FindingKey(f) : f \in Range(found)})

\* Controllers of two kinds share a namespace and a name and both are kept,
\* and one of them occurs twice and is kept once.
C6_Witness ==
    /\ pc = "done"
    /\ Cardinality(HostNamespaceTriggers) = 3
    /\ Cardinality(HostPathTriggers) = 3
    /\ \E f, g \in NonPodFindings(hostNamespaceWorkloads) :
           SamePair(f, g) /\ f.Kind # g.Kind
    /\ Cardinality(NonPodPositions(hostNamespaceWorkloads)) = 2
    /\ Cardinality(NonPodPositions(hostPathVolumes)) = 2

ClaimedPrecedence(kind) ==
    CASE kind = Deployment -> 7
      [] kind = StatefulSet -> 6
      [] kind = DaemonSet -> 5
      [] kind = CronJob -> 4
      [] kind = Job -> 3
      [] kind = ReplicaSet -> 2
      [] kind = Pod -> 1
      [] OTHER -> 0

\* Every kept finding is a finding of the combined list, and no finding of
\* its (namespace, container name) pair has a higher precedence.
KeepsMaximalPrecedence(kept, combined) ==
    \A f \in Range(kept) :
        /\ f \in Range(combined)
        /\ \A g \in Range(combined) :
               SamePair(f, g) => ClaimedPrecedence(g.Kind) <= ClaimedPrecedence(f.Kind)

CronJobPathComplete(item) ==
    /\ IsMap(item.Spec)
    /\ IsMap(Get(item.Spec, "jobTemplate"))
    /\ IsMap(Get(Get(item.Spec, "jobTemplate"), "spec"))
    /\ IsMap(Get(Get(Get(item.Spec, "jobTemplate"), "spec"), "template"))
    /\ IsMap(Get(Get(Get(Get(item.Spec, "jobTemplate"), "spec"), "template"), "spec"))

Analysable == {i \in Records : config.Items[i].Metadata.Name = mixed
                               \/ /\ config.Items[i].Kind = StatefulSet
                                  /\ config.Items[i].Metadata.Name = api}

ContainerFindingFor(findings, i) ==
    \E f \in Range(findings) :
        /\ f.Name = cName
        /\ f.Namespace = config.Items[i].Metadata.Namespace

WorkloadFindingFor(findings, i) ==
    \E f \in Range(findings) :
        /\ f.Kind = config.Items[i].Kind
        /\ f.Name = config.Items[i].Metadata.Name
        /\ f.Namespace = config.Items[i].Metadata.Namespace

(***************************************************************************)
(* C9: in the result of every Get* function, a record whose spec, template *)
(* or pod spec is absent or of the wrong type, and a container, port,      *)
(* volume or mount with an absent or wrongly typed field, contributes no   *)
(* finding, while the well-formed containers and volumes of the same and   *)
(* of the other records are still reported.                                *)
(***************************************************************************)
C9_MalformedFieldsContributeNothing ==
    /\ PrivilegedDone =>
           /\ \A f \in Range(privilegedContainers) : f.PodName # lost /\ f.Name # odd
           /\ \A i \in Analysable : ContainerFindingFor(privilegedContainers, i)
    /\ CapabilityDone =>
           /\ \A f \in Range(capabilityContainers) : f.PodName # lost /\ f.Name # odd
           /\ \A i \in Analysable : ContainerFindingFor(capabilityContainers, i)
    /\ HostNamespaceDone =>
           /\ \A f \in Range(hostNamespaceWorkloads) :
                  /\ f.Name # lost
                  /\ f.Name = mixed =>
                         /\ f.HostNetwork /\ ~f.HostPID /\ ~f.HostIPC
                         /\ f.HostPorts = <<>>
                         /\ f.ContainerNames = <<odd, cName>>
           /\ \A i \in Analysable \cap WorkloadRecords :
                  WorkloadFindingFor(hostNamespaceWorkloads, i)
    /\ HostPathDone =>
           /\ \A f \in Range(hostPathVolumes) :
                  /\ f.Name # lost
                  /\ f.Name = mixed =>
                         f.HostPaths = <<rootPath>> /\ f.ReadOnly = <<FALSE>>
           /\ \A i \in Analysable \cap WorkloadRecords :
                  WorkloadFindingFor(hostPathVolumes, i)

\* A record without a usable spec stands before one whose lists mix malformed
\* and well-formed entries, and the latter's findings are returned.
C9_Witness ==
    /\ pc = "done"
    /\ Len(config.Items) = 2
    /\ config.Items[1].Metadata.Name = lost
    /\ config.Items[2].Metadata.Name = mixed
    /\ config.Items[2].Kind = Deployment
    /\ Len(privilegedContainers) = 1
    /\ Len(capabilityContainers) = 1
    /\ Len(hostNamespaceWorkloads) = 1
    /\ Len(hostPathVolumes) = 1

RECURSIVE SumOver(_, _)
SumOver(f, keys) ==
    IF keys = {} THEN 0
    ELSE LET k == CHOOSE x \in keys : TRUE
         IN f[k] + SumOver(f, keys \ {k})

(***************************************************************************)
(* C10: the values of the map GetResourceCounts returns sum to the number  *)
(* of items, and the count of each kind is the number of items of that     *)
(* kind.                                                                   *)
(***************************************************************************)
C10_CountsSumToItems ==
    pc # "parsed" =>
        /\ SumOver(resourceCounts, DOMAIN resourceCounts) = Len(config.Items)
        /\ DOMAIN resourceCounts = {config.Items[i].Kind : i \in Records}
        /\ \A kind \in DOMAIN resourceCounts :
               resourceCounts[kind] =
                   Cardinality({i \in Records : config.Items[i].Kind = kind})

\* Three items of two kinds have been counted.
C10_Witness ==
    /\ pc = "done"
    /\ Len(config.Items) = 3
    /\ Cardinality(DOMAIN resourceCounts) = 2
    /\ \E kind \in DOMAIN resourceCounts : resourceCounts[kind] = 2

\* The pod specification a record is analysed with.
PodSpecOf(i) ==
    IF config.Items[i].Kind = Pod THEN config.Items[i].Spec
    ELSE workloadPodSpec(config.Items[i])

\* The volumes entries of a pod specification that have a hostPath with a
\* non-empty string path, in volume order.
HostPathEntries(spec) ==
    IF IsMap(spec) /\ IsList(Get(spec, "volumes"))
    THEN SelectSeq(Get(spec, "volumes").v,
                   LAMBDA v : /\ IsMap(v)
                              /\ IsMap(Get(v, "hostPath"))
                              /\ IsStr(Get(Get(v, "hostPath"), "path"))
                              /\ Get(Get(v, "hostPath"), "path").v # <<>>)
    ELSE <<>>

\* The name of a volume or of a mount as decoded: empty when it has none.
NameOf(entry) == StrOrEmpty(Get(entry, "name"))

ContainersOf(spec, field) ==
    IF IsList(Get(spec, field)) THEN Range(Get(spec, field).v) ELSE {}

\* Some main or init container has a mount of that name with readOnly true.
MountedReadOnly(spec, name) ==
    \E c \in ContainersOf(spec, "containers") \cup ContainersOf(spec, "initContainers") :
        /\ IsMap(c)
        /\ IsList(Get(c, "volumeMounts"))
        /\ \E mount \in Range(Get(c, "volumeMounts").v) :
               /\ IsMap(mount)
               /\ NameOf(mount) = name
               /\ Get(mount, "readOnly") = JBool(TRUE)

\* Finding f is attributed to record i.
FindingOf(f, i) ==
    /\ f.Kind = config.Items[i].Kind
    /\ f.Name = config.Items[i].Metadata.Name
    /\ f.Namespace = config.Items[i].Metadata.Namespace

\* What the hostPath detector appends for record i.
DetectedHostPaths(i) ==
    IF config.Items[i].Kind = Pod THEN HostPathsOfPod(i)
    ELSE checkWorkloadForHostPathVolumes(config.Items[i])

(***************************************************************************)
(* C11: every finding GetHostPathVolumes returns has HostPaths and         *)
(* ReadOnly of equal length, and for some record it is attributed to, its  *)
(* k-th path and k-th flag are the path and the read-only status of the    *)
(* k-th volume entry that has a hostPath path, whatever malformed, other   *)
(* or empty-path entries stand between them.                               *)
(***************************************************************************)
C11_PathsAndFlagsParallel ==
    HostPathDone =>
        \A f \in Range(hostPathVolumes) :
            /\ Len(f.HostPaths) = Len(f.ReadOnly)
            /\ \E i \in Records :
                   /\ FindingOf(f, i)
                   /\ LET entries == HostPathEntries(PodSpecOf(i))
                      IN /\ DOMAIN f.HostPaths = DOMAIN entries
                         /\ DOMAIN f.ReadOnly = DOMAIN entries
                         /\ \A k \in DOMAIN entries :
                                /\ f.HostPaths[k] =
                                       Get(Get(entries[k], "hostPath"), "path").v
                                /\ f.ReadOnly[k] =
                                       MountedReadOnly(PodSpecOf(i), NameOf(entries[k]))

\* An entry with an empty path stands before a hostPath volume that a
\* container mounts read-only: one path and its flag are returned.
C11_Witness ==
    /\ pc = "done"
    /\ Len(config.Items) = 1
    /\ IsMap(PodSpecOf(1))
    /\ IsList(Get(PodSpecOf(1), "volumes"))
    /\ Len(Get(PodSpecOf(1), "volumes").v) = 2
    /\ Get(PodSpecOf(1), "volumes").v[1] =
           JMap([name |-> JStr(volName), hostPath |-> JMap([path |-> JStr(<<>>)])])
    /\ \E f \in Range(hostPathVolumes) :
           f.HostPaths = <<etcPath>> /\ f.ReadOnly = <<TRUE>>

(***************************************************************************)
(* C12: in what the hostPath detector emits for a record, the volume of    *)
(* the k-th reported path is flagged read-only if and only if some main or *)
(* init container has a volumeMounts entry of the volume's name whose      *)
(* readOnly is true: read-write in one container and read-only in another  *)
(* is read-only, and a read-only mount of an init container stands when    *)
(* the main containers mount the volume read-write.                        *)
(***************************************************************************)
C12_ReadOnlyIffSomeMount ==
    pc = "done" =>
        \A i \in Records : \A f \in Range(DetectedHostPaths(i)) :
            \A k \in DOMAIN f.ReadOnly :
                k \in DOMAIN HostPathEntries(PodSpecOf(i)) =>
                    (f.ReadOnly[k] <=>
                         MountedReadOnly(PodSpecOf(i),
                                         NameOf(HostPathEntries(PodSpecOf(i))[k])))

\* The main container mounts the volume read-write, the init container
\* read-only, and the volume is returned as read-only.
C12_Witness ==
    /\ pc = "done"
    /\ Len(config.Items) = 1
    /\ IsMap(PodSpecOf(1))
    /\ Get(PodSpecOf(1), "containers") =
           JList(<<MountingContainer(cName, <<Mount(volName, FALSE)>>)>>)
    /\ Get(PodSpecOf(1), "initContainers") =
           JList(<<MountingContainer(iName, <<Mount(volName, TRUE)>>)>>)
    /\ \E f \in Range(hostPathVolumes) :
           f.HostPaths = <<rootPath>> /\ f.ReadOnly = <<TRUE>>

\* The main containers and then the init containers of a pod specification.
ContainerSeq(spec) ==
    IF ~IsMap(spec) THEN <<>>
    ELSE (IF IsList(Get(spec, "containers")) THEN Get(spec, "containers").v ELSE <<>>)
         \o (IF IsList(Get(spec, "initContainers"))
             THEN Get(spec, "initContainers").v ELSE <<>>)

\* securityContext.privileged of the container is the boolean true.
PrivilegedIsTrue(c) ==
    /\ IsMap(c)
    /\ IsMap(Get(c, "securityContext"))
    /\ Get(Get(c, "securityContext"), "privileged") = JBool(TRUE)

\* The records the detectors are run on.
AnalysedRecords == PodRecords \cup WorkloadRecords

\* What the privileged detector appends for record i.
DetectedPrivileged(i) ==
    IF config.Items[i].Kind = Pod THEN PrivilegedOfPod(i)
    ELSE processPrivilegedContainersInWorkload(config.Items[i])

\* One finding {containerName, namespace, owning kind, owning name} per
\* container of record i whose privileged is the boolean true.
ExpectedPrivileged(i) ==
    LET found == SelectSeq(ContainerSeq(PodSpecOf(i)), PrivilegedIsTrue)
    IN [k \in DOMAIN found |->
           [Name |-> NameOf(found[k]),
            Namespace |-> config.Items[i].Metadata.Namespace,
            Kind |-> config.Items[i].Kind,
            PodName |-> config.Items[i].Metadata.Name]]

(***************************************************************************)
(* C13: for every record, the privileged detector emits one finding        *)
(* {containerName, namespace, owning kind, owning name} per main or init   *)
(* container whose securityContext.privileged is the boolean true and no   *)
(* other; every finding GetPrivilegedContainers returns is one of them;    *)
(* and for the document holding only Pod nginx of namespace default with   *)
(* one privileged container nginx it returns exactly                       *)
(* [{nginx, default, Pod, nginx}].                                         *)
(***************************************************************************)
C13_PrivilegedExactlyWhenTrue ==
    PrivilegedDone =>
        /\ \A i \in AnalysedRecords : DetectedPrivileged(i) = ExpectedPrivileged(i)
        /\ \A f \in Range(privilegedContainers) :
               \E i \in AnalysedRecords : f \in Range(ExpectedPrivileged(i))
        /\ config = NginxDocument =>
               privilegedContainers =
                   <<[Name |-> nginx, Namespace |-> default, Kind |-> Pod,
                      PodName |-> nginx]>>

\* The nginx document has been analysed.
C13_Witness ==
    /\ pc = "done"
    /\ config = NginxDocument
    /\ Len(privilegedContainers) = 1

\* The string entries and the other entries of add, as the claim counts them.
AddOf(c) ==
    IF IsMap(c) /\ IsMap(Get(c, "securityContext"))
       /\ IsMap(Get(Get(c, "securityContext"), "capabilities"))
       /\ IsList(Get(Get(Get(c, "securityContext"), "capabilities"), "add"))
    THEN Get(Get(Get(c, "securityContext"), "capabilities"), "add").v
    ELSE <<>>

\* What the capability detector appends for record i.
DetectedCapabilities(i) ==
    IF config.Items[i].Kind = Pod
    THEN processCapabilityContainersInPod(config.Items[i],
             config.Items[i].Metadata.Name, config.Items[i].Metadata.Namespace,
             config.Items[i].Kind)
    ELSE processCapabilityContainersInWorkload(config.Items[i])

CapabilityFinding(i, c, capabilities) ==
    [Name |-> NameOf(c),
     Namespace |-> config.Items[i].Metadata.Namespace,
     Kind |-> config.Items[i].Kind,
     PodName |-> config.Items[i].Metadata.Name,
     Capabilities |-> capabilities]

\* One finding per container with a non-empty add, carrying every entry.
ExpectedAllAdded(i) ==
    LET found == SelectSeq(ContainerSeq(PodSpecOf(i)), LAMBDA c : Len(AddOf(c)) > 0)
    IN [k \in DOMAIN found |->
           CapabilityFinding(i, found[k],
               [n \in DOMAIN AddOf(found[k]) |-> AddOf(found[k])[n].v])]

StringsOf(add) ==
    LET kept == SelectSeq(add, IsStr) IN [n \in DOMAIN kept |-> kept[n].v]

\* One finding per container whose add has a string entry, carrying the
\* string entries.
ExpectedStringsAdded(i) ==
    LET found == SelectSeq(ContainerSeq(PodSpecOf(i)),
                           LAMBDA c : Len(StringsOf(AddOf(c))) > 0)
    IN [k \in DOMAIN found |-> CapabilityFinding(i, found[k], StringsOf(AddOf(found[k])))]

(***************************************************************************)
(* C14 as stated: the capability detector emits exactly one finding per    *)
(* container whose securityContext.capabilities.add is non-empty, carrying *)
(* the full added list in its order with nothing filtered out, and none    *)
(* for a container whose add is absent or empty.                           *)
(***************************************************************************)
C14_FullAddedList ==
    CapabilityDone =>
        \A i \in AnalysedRecords : DetectedCapabilities(i) = ExpectedAllAdded(i)

(***************************************************************************)
(* C14 amended: the capability detector emits exactly one finding per      *)
(* container whose add list holds at least one string, carrying the string *)
(* entries of add in their order, every capability name among them; a      *)
(* container whose add is absent, empty or without a string entry emits no *)
(* finding; every finding GetCapabilityContainers returns is one of them.  *)
(***************************************************************************)
C14_StringEntriesOfAddedList ==
    CapabilityDone =>
        /\ \A i \in AnalysedRecords : DetectedCapabilities(i) = ExpectedStringsAdded(i)
        /\ \A f \in Range(capabilityContainers) :
               \E i \in AnalysedRecords : f \in Range(ExpectedStringsAdded(i))

\* A container adds two capabilities and both are returned in their order,
\* and a container whose add list has a number before a name is returned
\* with the name alone.
C14_Witness ==
    /\ pc = "done"
    /\ Len(config.Items) = 1
    /\ Len(ContainerSeq(PodSpecOf(1))) = 1
    /\ AddOf(ContainerSeq(PodSpecOf(1))[1]) = <<JNum(1, FALSE), JStr(NetAdmin)>>
    /\ \E f \in Range(capabilityContainers) : f.Capabilities = <<NetAdmin>>

\* The flag of the pod specification is explicitly the boolean true.
FlagIsTrue(spec, flag) == Get(spec, flag) = JBool(TRUE)

\* Some main or init container declares a hostPort that is a positive number.
DeclaresPositiveHostPort(spec) ==
    \E c \in ContainersOf(spec, "containers") \cup ContainersOf(spec, "initContainers") :
        /\ IsMap(c)
        /\ IsList(Get(c, "ports"))
        /\ \E port \in Range(Get(c, "ports").v) :
               /\ IsMap(port)
               /\ IsNum(Get(port, "hostPort"))
               /\ \/ Get(port, "hostPort").v > 0
                  \/ Get(port, "hostPort").half

\* What the host-namespace detector appends for record i.
DetectedHostNamespaces(i) ==
    IF config.Items[i].Kind = Pod THEN HostNamespacesOfPod(i)
    ELSE checkWorkloadForHostNamespaces(config.Items[i])

(***************************************************************************)
(* C15: for a record whose pod specification is resolved, the              *)
(* host-namespace detector emits one finding if hostPID, hostIPC or        *)
(* hostNetwork is the boolean true or a container declares a positive      *)
(* hostPort, and none otherwise; the flags of the finding are the          *)
(* explicit-true flags of the pod specification; and for the document      *)
(* holding only DaemonSet kindnet with hostNetwork true and container      *)
(* kindnet-cni, GetHostNamespaceWorkloads returns one entry of Kind        *)
(* DaemonSet with HostNetwork true, HostPID and HostIPC false, no host     *)
(* ports and ContainerNames [kindnet-cni].                                 *)
(***************************************************************************)
C15_FindingIffFlagOrHostPort ==
    HostNamespaceDone =>
        /\ \A i \in AnalysedRecords :
               LET spec == PodSpecOf(i)
                   found == DetectedHostNamespaces(i)
               IN IF ~IsMap(spec) THEN found = <<>>
                  ELSE /\ Len(found) = (IF \/ FlagIsTrue(spec, "hostPID")
                                           \/ FlagIsTrue(spec, "hostIPC")
                                           \/ FlagIsTrue(spec, "hostNetwork")
                                           \/ DeclaresPositiveHostPort(spec)
                                        THEN 1 ELSE 0)
                       /\ \A f \in Range(found) :
                              /\ FindingOf(f, i)
                              /\ f.HostPID = FlagIsTrue(spec, "hostPID")
                              /\ f.HostIPC = FlagIsTrue(spec, "hostIPC")
                              /\ f.HostNetwork = FlagIsTrue(spec, "hostNetwork")
        /\ \A f \in Range(hostNamespaceWorkloads) :
               \E i \in AnalysedRecords : f \in Range(DetectedHostNamespaces(i))
        /\ config = KindnetDocument =>
               hostNamespaceWorkloads =
                   <<[Name |-> kindnet, Namespace |-> kubeSystem, Kind |-> DaemonSet,
                      HostPID |-> FALSE, HostIPC |-> FALSE, HostNetwork |-> TRUE,
                      HostPorts |-> <<>>, ContainerNames |-> <<kindnetCni>>]>>

\* The kindnet document has been analysed.
C15_Witness ==
    /\ pc = "done"
    /\ config = KindnetDocument
    /\ Len(hostNamespaceWorkloads) = 1

(***************************************************************************)
(* C16: for every record the hostPath detector emits exactly one finding   *)
(* when its pod specification has at least one volume entry with a         *)
(* hostPath path (a non-empty string), and none otherwise; the finding     *)
(* lists the path of every such entry, in volume order; a document of one  *)
(* workload record returns what the detector emitted.                      *)
(***************************************************************************)
C16_OneFindingListingEveryPath ==
    HostPathDone =>
        /\ \A i \in AnalysedRecords :
               LET entries == HostPathEntries(PodSpecOf(i))
                   found == DetectedHostPaths(i)
               IN /\ Len(found) = (IF Len(entries) > 0 THEN 1 ELSE 0)
                  /\ \A f \in Range(found) :
                         /\ FindingOf(f, i)
                         /\ f.HostPaths =
                                [k \in DOMAIN entries |->
                                    Get(Get(entries[k], "hostPath"), "path").v]
        /\ (Len(config.Items) = 1 /\ WorkloadRecords = {1}) =>
               hostPathVolumes = DetectedHostPaths(1)

\* A Deployment with two hostPath volumes is returned as one finding that
\* lists both paths in volume order.
C16_Witness ==
    /\ pc = "done"
    /\ Len(config.Items) = 1
    /\ config.Items[1].Kind = Deployment
    /\ Len(HostPathEntries(PodSpecOf(1))) = 2
    /\ Len(hostPathVolumes) = 1
    /\ hostPathVolumes[1].HostPaths = <<etcPath, rootPath>>

Occurrences(findings, f) == Cardinality({k \in DOMAIN findings : findings[k] = f})

\* Two lists hold the same findings the same number of times.
SameFindings(first, second) ==
    \A f \in Range(first) \cup Range(second) :
        Occurrences(first, f) = Occurrences(second, f)

(***************************************************************************)
(* C17: when the four Get* functions are run a second time on the same     *)
(* document, each returns the findings of its first run, as an unordered   *)
(* collection with multiplicities, whatever order the grouping map is      *)
(* iterated in by either run.                                              *)
(***************************************************************************)
C17_SameFindingsOnSecondRun ==
    [][pc' = "exported" =>
           /\ SameFindings(privilegedContainers, privilegedContainers')
           /\ SameFindings(capabilityContainers, capabilityContainers')
           /\ SameFindings(hostNamespaceWorkloads, hostNamespaceWorkloads')
           /\ SameFindings(hostPathVolumes, hostPathVolumes')]_vars

\* The second run has visited the groups of the tie document in the other
\* order: the group of container d first, then the group of container c
\* with its two findings of equal precedence.
C17_Witness ==
    /\ pc = "exported"
    /\ config = TieDocument
    /\ Len(privilegedContainers) = 2
    /\ privilegedContainers[1].Name = dName
    /\ privilegedContainers[2].Name = cName
    /\ Len(capabilityContainers) = 2
    /\ capabilityContainers[1].Name = dName

\* Record i has something a detector reports: a privileged container, an
\* added capability name, a host namespace, a positive host port or a
\* hostPath volume.
Triggers(i) ==
    LET spec == PodSpecOf(i)
    IN /\ IsMap(spec)
       /\ \/ \E c \in Range(ContainerSeq(spec)) :
                 PrivilegedIsTrue(c) \/ Len(StringsOf(AddOf(c))) > 0
          \/ FlagIsTrue(spec, "hostPID")
          \/ FlagIsTrue(spec, "hostIPC")
          \/ FlagIsTrue(spec, "hostNetwork")
          \/ DeclaresPositiveHostPort(spec)
          \/ Len(HostPathEntries(spec)) > 0

(***************************************************************************)
(* C18: the analysis of a document with zero items, or with no record that *)
(* triggers a detector, ends with zero findings in each of the four        *)
(* collections, and for zero items with an empty resource-count map; the   *)
(* run completes as any other.                                             *)
(***************************************************************************)
C18_NothingFoundIsEmptyResult ==
    pc \in {"done", "exported"} =>
        /\ (\A i \in AnalysedRecords : ~Triggers(i)) =>
               /\ Len(privilegedContainers) = 0
               /\ Len(capabilityContainers) = 0
               /\ Len(hostNamespaceWorkloads) = 0
               /\ Len(hostPathVolumes) = 0
        /\ Len(config.Items) = 0 => DOMAIN resourceCounts = {}

\* The document without items has been analysed to the end.
C18_Witness ==
    /\ pc = "done"
    /\ Len(config.Items) = 0
    /\ DOMAIN resourceCounts = {}
    /\ privilegedContainers = <<>>
    /\ hostPathVolumes = <<>>


(***************************************************************************)
(* Cleanup and migration of stored versions                                *)
(***************************************************************************)
\* The versions of a name that a cleanup step is asked to trim.
InScope(cleanup, name) == cleanup.name = <<>> \/ cleanup.name = name

Least(a, b) == IF a <= b THEN a ELSE b

\* What keeping the latest versions of a name does to its rows: none is
\* added, as many as asked for remain (all of them when fewer exist), and
\* no deleted version is newer than a retained one.
LatestKept(before, after, keepVersions) ==
    /\ after \subseteq before
    /\ Cardinality(after) = Least(keepVersions, Cardinality(before))
    /\ \A kept \in after, deleted \in before \ after :
           deleted.timestamp <= kept.timestamp

\* C19: a cleanup --backend sqlite --keep-versions N step (N >= 1, not a dry
\* run) leaves every name in scope with at most N versions, which are N of
\* the latest timestamps (all versions when fewer than N exist), and leaves
\* the versions of every name outside the --name filter as they were.
C19_KeepsLatestVersions ==
    [][(/\ command'.op = "cleanup"
        /\ command'.backend = "sqlite"
        /\ ~command'.dryRun
        /\ command'.keepVersions >= 1)
       => \A name \in Range(ConfigNames) :
              IF InScope(command', name)
              THEN LatestKept(RowsOf(db, name), RowsOf(db', name),
                              command'.keepVersions)
              ELSE RowsOf(db', name) = RowsOf(db, name)]_vars

\* cleanup --name prod --keep-versions 1 has deleted a version of prod, of
\* which one remains, beside the two versions of dev.
C19_Witness ==
    /\ command.op = "cleanup"
    /\ command.backend = "sqlite"
    /\ ~command.dryRun
    /\ command.keepVersions = 1
    /\ command.name = prod
    /\ command.totalDeleted >= 1
    /\ Cardinality(RowsOf(db, prod)) = 1
    /\ Cardinality(RowsOf(db, dev)) = 2

\* What LoadConfig(name) of the destination of a migration can return.
LoadFromDestination(name) ==
    IF command.to = "sqlite" THEN LoadConfig(db, name) ELSE FileLoadConfig(files, name)

\* C20: after a forced migration without errors, LoadConfig of every migrated
\* name returns, from the destination, the configuration the source held.
C20_ForcedMigrationOverwrites ==
    (/\ command.op = "migrate"
     /\ command.force
     /\ ~command.dryRun
     /\ ~command.failed
     /\ command.errorCount = 0)
    => \A m \in command.migrated :
           LoadFromDestination(m.name) = {Loaded(m.config)}

(***************************************************************************)
(* Dry runs                                                                *)
(***************************************************************************)
\* C21: a cleanup --dry-run step and a migrate --dry-run step leave the rows
\* of both tables of the database and the files of the directory as they
\* were.
C21_DryRunChangesNothing ==
    [][(/\ command'.op \in {"cleanup", "migrate"}
        /\ command'.dryRun)
       => /\ db' = db
          /\ files' = files]_vars

\* cleanup --backend sqlite --keep-versions 1 --dry-run has listed a version
\* of prod for deletion, and both versions of prod are still stored.
C21_Witness ==
    /\ command.op = "cleanup"
    /\ command.backend = "sqlite"
    /\ command.dryRun
    /\ command.keepVersions = 1
    /\ command.totalDeleted >= 1
    /\ Cardinality(RowsOf(db, prod)) = 2

(***************************************************************************)
(* Queries of the SQLite store                                             *)
(***************************************************************************)
\* The versions of a name the database holds.
VersionsOf(name) == {v \in db.configs : v.name = name}

\* The versions of a name than which the database holds no later one.
GreatestVersions(name) ==
    {v \in VersionsOf(name) : ~\E w \in VersionsOf(name) : w.timestamp > v.timestamp}

\* A history lists every version of the name once, none before a later one.
AllVersionsNewestFirst(history, name) ==
    /\ Len(history) = Cardinality(VersionsOf(name))
    /\ {history[i].id : i \in 1..Len(history)} = {v.id : v \in VersionsOf(name)}
    /\ \A i \in 1..Len(history) : history[i] \in VersionsOf(name)
    /\ \A i, j \in 1..Len(history) :
           i < j => history[i].timestamp >= history[j].timestamp

\* C22: after any sequence of SaveConfig, SaveConfigWithMetadata and
\* DeleteConfig calls, LoadConfig(name) returns the data of a stored version
\* of the name with the greatest timestamp, or the not-found error when no
\* version of the name remains, and GetConfigHistory(name) returns all
\* remaining versions of the name, newest first.
C22_LatestVersionAndHistory ==
    \A name \in Range(ConfigNames) :
        /\ LoadConfig(db, name) # {}
        /\ \A loaded \in LoadConfig(db, name) :
               IF VersionsOf(name) = {}
               THEN loaded = NotFound
               ELSE /\ ~loaded.err
                    /\ \E v \in GreatestVersions(name) :
                           loaded.config = v.raw_data
        /\ GetConfigHistory(db, name) # {}
        /\ \A history \in GetConfigHistory(db, name) :
               AllVersionsNewestFirst(history, name)

\* DeleteConfig has removed the last version of dev; prod keeps two versions
\* of different data, the later of which LoadConfig returns.
C22_Witness ==
    /\ command.op = "DeleteConfig"
    /\ ~command.failed
    /\ uuids = 3
    /\ VersionsOf(dev) = {}
    /\ LoadConfig(db, dev) = {NotFound}
    /\ \E old, new \in VersionsOf(prod) :
           /\ old.timestamp < new.timestamp
           /\ old.raw_data # new.raw_data
           /\ VersionsOf(prod) = {old, new}
           /\ LoadConfig(db, prod) = {Loaded(new.raw_data)}

(***************************************************************************)
(* The two tables of the SQLite store                                      *)
(***************************************************************************)
ConfigIDs(database) == {r.id : r \in database.configs}
AnalysisIDs(database) == {a.config_id : a \in database.security_analysis}

\* C29: after every SaveConfig, SaveConfigWithMetadata and DeleteConfig call,
\* successful or failing, security_analysis has a row for a config id if and
\* only if configs has a row of that id; a save that returns an error
\* inserts into neither table, a save that returns none inserts one row into
\* each, and DeleteConfig of an id that no row of configs carries returns
\* the not-found error and leaves both tables as they were.
C29_AnalysisIffConfig ==
    [][/\ AnalysisIDs(db') = ConfigIDs(db')
       /\ Cardinality(db'.security_analysis) = Cardinality(db'.configs)
       /\ (command'.op \in {"SaveConfig", "SaveConfigWithMetadata"}
              /\ command'.failed)
          => db' = db
       /\ (command'.op \in {"SaveConfig", "SaveConfigWithMetadata"}
              /\ ~command'.failed)
          => /\ ConfigIDs(db') = ConfigIDs(db) \cup {command'.id}
             /\ command'.id \notin ConfigIDs(db)
       /\ (command'.op = "DeleteConfig" /\ command'.id \notin ConfigIDs(db))
          => /\ command'.failed
             /\ db' = db
       /\ (command'.op = "DeleteConfig" /\ command'.id \in ConfigIDs(db))
          => /\ ~command'.failed
             /\ ConfigIDs(db') = ConfigIDs(db) \ {command'.id}]_vars

\* SaveConfigWithMetadata has failed on the ID of a stored row, after three
\* rows were saved and one of them deleted: two rows are in each table.
C29_Witness ==
    /\ command.op = "SaveConfigWithMetadata"
    /\ command.failed
    /\ command.id \in ConfigIDs(db)
    /\ uuids = 3
    /\ Cardinality(db.configs) = 2
    /\ Cardinality(db.security_analysis) = 2

(***************************************************************************)
(* Cleanup by age                                                          *)
(***************************************************************************)
\* The greatest timestamp among rows, which are not empty.
LatestTimestamp(rows) ==
    CHOOSE t \in {r.timestamp : r \in rows} : \A r \in rows : r.timestamp <= t

\* What cleaning a name by age does to its rows: none is added, a version of
\* the latest timestamp remains, and every deleted version is older than the
\* cutoff.
LatestSurvives(before, after, cutoffTime) ==
    /\ after \subseteq before
    /\ before # {} =>
           \E kept \in after : kept.timestamp = LatestTimestamp(before)
    /\ \A deleted \in before \ after : deleted.timestamp < cutoffTime

ListedIn(backend, database, dir) ==
    IF backend = "sqlite" THEN ListConfigs(database) ELSE FileListConfigs(dir)

\* A migrate step without --force and without --dry-run whose destination
\* listed a configuration before it.
UnforcedIntoNonEmpty ==
    /\ command'.op = "migrate"
    /\ ~command'.force
    /\ ~command'.dryRun
    /\ ListedIn(command'.to, db, files) # <<>>

\* C28 as stated: a migrate run without --force and without --dry-run whose
\* destination lists a configuration fails with "destination backend not
\* empty" and writes nothing.
C28_NonEmptyDestinationFails ==
    [][UnforcedIntoNonEmpty
       => /\ command'.failed
          /\ db' = db
          /\ files' = files]_vars

\* C28, amended: such a run writes nothing; it fails with "destination
\* backend not empty" exactly when the source lists a configuration, and ends
\* without an error, having found nothing to migrate, when the source lists
\* none.
C28_NonEmptyDestinationFailsIfSourceListed ==
    [][UnforcedIntoNonEmpty
       => /\ command'.failed <=> ListedIn(command'.backend, db, files) # <<>>
          /\ db' = db
          /\ files' = files]_vars

\* migrate --from file --to sqlite has failed: the directory holds dev.json
\* and the database a version of prod, and nothing of dev.
C28_Witness ==
    /\ command.op = "migrate"
    /\ command.backend = "file"
    /\ command.to = "sqlite"
    /\ ~command.force
    /\ ~command.dryRun
    /\ command.failed
    /\ FileListConfigs(files) = <<dev>>
    /\ ListConfigs(db) = <<prod>>

(***************************************************************************)
(* Findings of equal precedence                                            *)
(***************************************************************************)
\* The positions of the combined list whose finding is of the pair of f and
\* of the greatest precedence found in that pair.
MaximalPositions(combined, f) ==
    {i \in DOMAIN combined :
        /\ SamePair(combined[i], f)
        /\ \A j \in DOMAIN combined :
               SamePair(combined[j], f) =>
                   ClaimedPrecedence(combined[j].Kind)
                       <= ClaimedPrecedence(combined[i].Kind)}

\* Every kept finding is the earliest finding of the combined list among
\* those of its pair that have the greatest precedence of the pair.
KeepsFirstOfMaximal(kept, combined) ==
    \A f \in Range(kept) :
        \E i \in MaximalPositions(combined, f) :
            /\ f = combined[i]
            /\ \A j \in MaximalPositions(combined, f) :
                   j < i => combined[j] = f

\* C23: under policy A, when several findings of a (namespace, container
\* name) group share the greatest precedence of the group, the finding kept
\* is the earliest of them in the combined list (controller findings in
\* document order, then pod findings in document order), under every
\* iteration order of the map.
C23_FirstOfEqualPrecedenceKept ==
    /\ AnalysisDone =>
           KeepsFirstOfMaximal(privilegedContainers, privilegedCombined(config))
    /\ AnalysisDone =>
           KeepsFirstOfMaximal(capabilityContainers, capabilityCombined(config))

\* Two records of one kind and different names give container c of one
\* namespace two findings of equal precedence; the finding of the record that
\* comes first is the one returned, by both functions.
C23_Witness ==
    /\ pc = "done"
    /\ Len(config.Items) = 2
    /\ config.Items[1].Kind = ReplicaSet
    /\ config.Items[2].Kind = ReplicaSet
    /\ config.Items[1].Metadata.Name # config.Items[2].Metadata.Name
    /\ Len(privilegedCombined(config)) = 2
    /\ SamePair(privilegedCombined(config)[1], privilegedCombined(config)[2])
    /\ Len(privilegedContainers) = 1
    /\ privilegedContainers[1].PodName = config.Items[1].Metadata.Name
    /\ Len(capabilityContainers) = 1
    /\ capabilityContainers[1].PodName = config.Items[1].Metadata.Name

(***************************************************************************)
(* What deduplication policy A keeps                                       *)
(***************************************************************************)
PairOf(f) == <<f.Namespace, f.Name>>
PairsOf(findings) == {PairOf(f) : f \in Range(findings)}

\* The key under which the grouping map holds a finding.
KeyOf(f) == f.Namespace \o <<"|">> \o f.Name
KeysOf(findings) == {KeyOf(f) : f \in Range(findings)}

\* The output has the pairs of the input, one finding for each, and every
\* finding of it is a finding of the input.
PairsPreserved(output, input) ==
    /\ PairsOf(output) = PairsOf(input)
    /\ Len(output) = Cardinality(PairsOf(input))
    /\ Range(output) \subseteq Range(input)

\* The output has the keys of the input, one finding for each, and every
\* finding of it is a finding of the input; its pairs are those of the input
\* when no two pairs of the input share a key.
KeysPreserved(output, input) ==
    /\ KeysOf(output) = KeysOf(input)
    /\ Len(output) = Cardinality(KeysOf(input))
    /\ Range(output) \subseteq Range(input)
    /\ PairsOf(output) \subseteq PairsOf(input)
    /\ Cardinality(PairsOf(input)) = Cardinality(KeysOf(input)) =>
           PairsOf(output) = PairsOf(input)

\* C30 as stated: the pairs (namespace, container name) of the output of
\* policy A are the pairs of its input, the output has exactly one finding
\* per pair, and every output finding is an input finding unchanged.
C30_PairsPreserved ==
    /\ AnalysisDone =>
           PairsPreserved(privilegedContainers, privilegedCombined(config))
    /\ AnalysisDone =>
           PairsPreserved(capabilityContainers, capabilityCombined(config))

\* C30, amended: the keys "namespace|name" of the output of policy A are the
\* keys of its input, the output has exactly one finding per key, and every
\* output finding is an input finding unchanged; the same holds of the pairs
\* when no two pairs of the input share a key.
C30_KeysPreserved ==
    /\ AnalysisDone =>
           KeysPreserved(privilegedContainers, privilegedCombined(config))
    /\ AnalysisDone =>
           KeysPreserved(capabilityContainers, capabilityCombined(config))

\* Three findings go in: two of container c of one namespace, one of
\* container d. Two findings come out, one for each pair.
C30_Witness ==
    /\ pc = "done"
    /\ Len(privilegedCombined(config)) = 3
    /\ Cardinality(PairsOf(privilegedCombined(config))) = 2
    /\ Cardinality(KeysOf(privilegedCombined(config))) = 2
    /\ Len(privilegedContainers) = 2
    /\ Len(capabilityCombined(config)) = 3
    /\ Len(capabilityContainers) = 2

(***************************************************************************)
(* Host ports and container names of a host-namespace finding              *)
(***************************************************************************)
NoDuplicates(list) == \A i, j \in DOMAIN list : list[i] = list[j] => i = j

\* The main and init containers of a pod specification that are maps.
MapContainers(spec) == {c \in Range(ContainerSeq(spec)) : IsMap(c)}

\* The hostPort values above zero that the containers declare.
DeclaredHostPorts(spec) ==
    {Get(port, "hostPort") :
        port \in {p \in UNION {Range(Get(c, "ports").v) :
                                  c \in {d \in MapContainers(spec) :
                                            IsList(Get(d, "ports"))}} :
                     /\ IsMap(p)
                     /\ IsNum(Get(p, "hostPort"))
                     /\ \/ Get(p, "hostPort").v > 0
                        \/ Get(p, "hostPort").half}}

\* The names, non-empty strings, that the containers carry.
DeclaredContainerNames(spec) ==
    {Get(c, "name").v : c \in {d \in MapContainers(spec) :
                                  IsStr(Get(d, "name")) /\ Get(d, "name").v # <<>>}}

\* int(hostPort): the number without its fraction.
IntegerPart(number) == number.v

\* The two lists of a finding hold, without duplicates, the non-empty names
\* of all containers and the integer parts of all declared host ports.
AccumulatedFromAllContainers(f, spec) ==
    /\ NoDuplicates(f.HostPorts)
    /\ NoDuplicates(f.ContainerNames)
    /\ \A name \in Range(f.ContainerNames) : name # <<>>
    /\ Range(f.ContainerNames) = DeclaredContainerNames(spec)
    /\ Range(f.HostPorts) = {IntegerPart(n) : n \in DeclaredHostPorts(spec)}

LeftOut(i, combined, returned) ==
    /\ ~SecondPass(i)
    /\ ~PodFindingFor(combined, i)
    /\ ~PodFindingFor(returned, i)

\* C24: in GetHostNamespaceWorkloads and GetHostPathVolumes a Pod record
\* with an owner reference of the kind and name of a workload record of the
\* document is left out of the second pass, whether the Pod record comes
\* before or after that record in the items: every controller has marked
\* its pods when the first Pod is filtered.
C24_MarkedBeforeFiltered ==
    /\ AnalysisDone =>
           \A i \in PodRecords :
               ControllerPresent(i) =>
                   LeftOut(i, hostNamespaceCombined(config), hostNamespaceWorkloads)
    /\ AnalysisDone =>
           \A i \in PodRecords :
               ControllerPresent(i) =>
                   LeftOut(i, hostPathCombined(config), hostPathVolumes)

\* A Pod that uses a host namespace and a hostPath volume comes first, the
\* ReplicaSet its owner reference names comes after it, and a second Pod of
\* that owner comes last: neither Pod is scanned by either function.
C24_Witness ==
    /\ pc = "done"
    /\ Len(config.Items) = 3
    /\ config.Items[1].Kind = Pod
    /\ config.Items[2].Kind = ReplicaSet
    /\ config.Items[3].Kind = Pod
    /\ config.Items[1].Metadata.Name # config.Items[3].Metadata.Name
    /\ RefersTo(1, 2)
    /\ RefersTo(3, 2)
    /\ Len(HostNamespacesOfPod(1)) = 1
    /\ Len(HostPathsOfPod(1)) = 1
    /\ ~SecondPass(1)
    /\ ~SecondPass(3)
    /\ PodFindings(hostNamespaceWorkloads) = {}
    /\ PodFindings(hostPathVolumes) = {}

(***************************************************************************)
(* What of an owner reference the ownership resolution reads               *)
(***************************************************************************)
\* The owner reference with its kind and name alone: uid and apiVersion
\* empty, controller and blockOwnerDeletion false.
KindAndNameOnly(ref) ==
    [APIVersion |-> <<>>, Kind |-> ref.Kind, Name |-> ref.Name, UID |-> <<>>,
     Controller |-> FALSE, BlockOwnerDeletion |-> FALSE]

\* The document with every owner reference reduced to its kind and name. Two
\* documents that differ only in the other four fields of owner references
\* are reduced to the same document.
WithKindAndNameOnly(cfg) ==
    [Items |->
        [k \in DOMAIN cfg.Items |->
            [cfg.Items[k] EXCEPT !.Metadata.OwnerReferences =
                [r \in DOMAIN @ |-> KindAndNameOnly(@[r])]]]]

\* Pod record i has an owner reference of the kind and name of workload
\* record j, which is of another namespace, and whose controller flag is
\* not set.
NamedAcrossNamespaces(i, j) ==
    /\ config.Items[i].Metadata.Namespace # config.Items[j].Metadata.Namespace
    /\ \E r \in Refs(i) :
           /\ r.Kind = config.Items[j].Kind
           /\ r.Name = config.Items[j].Metadata.Name
           /\ ~r.Controller

\* C26: in GetHostNamespaceWorkloads and GetHostPathVolumes a Pod is marked
\* as represented by every workload record that has the kind and the name of
\* one of its owner references, whatever the namespace of the record and the
\* uid and controller flag of the reference, and the findings of a document
\* are those of the document whose owner references keep kind and name
\* alone: uid, controller, blockOwnerDeletion and apiVersion change nothing.
C26_OnlyKindAndNameConsulted ==
    /\ AnalysisDone =>
           /\ \A i \in PodRecords, j \in WorkloadRecords :
                  RefersTo(i, j) =>
                      PodKeyOf(i) \in processedAfter(config, Len(config.Items))
           /\ hostNamespaceCombined(WithKindAndNameOnly(config))
                  = hostNamespaceCombined(config)
           /\ GetHostNamespaceWorkloads(WithKindAndNameOnly(config))
                  = hostNamespaceWorkloads
    /\ AnalysisDone =>
           /\ hostPathCombined(WithKindAndNameOnly(config))
                  = hostPathCombined(config)
           /\ GetHostPathVolumes(WithKindAndNameOnly(config)) = hostPathVolumes

\* A Pod of one namespace names, in a reference with another uid and without
\* the controller flag, a ReplicaSet that the document holds in another
\* namespace only; the Pod is marked and not scanned.
C26_Witness ==
    /\ pc = "done"
    /\ \E i \in PodRecords :
           /\ \E j \in WorkloadRecords : NamedAcrossNamespaces(i, j)
           /\ \A j \in WorkloadRecords :
                  RefersTo(i, j) => NamedAcrossNamespaces(i, j)
           /\ Len(HostNamespacesOfPod(i)) = 1
           /\ ~SecondPass(i)
           /\ ~PodFindingFor(hostNamespaceCombined(config), i)
    /\ WithKindAndNameOnly(config) # config
====
